---- MODULE Spec2Model ----
(***************************************************************************)
(* A model of the statement parsing and categorization engine of the      *)
(* finance tracker (src/main.py, src/api.py).                              *)
(*                                                                         *)
(* Text is modelled as TLA+ strings, on which TLC evaluates Len, \o and    *)
(* SubSeq; regular expressions of the source are written out as position   *)
(* matchers over the characters.  Money is modelled in whole cents.        *)
(*                                                                         *)
(* The module holds several specifications over the same variables:        *)
(*   SpecBalance   the reconciliation at the end of parse_pdf_transactions *)
(*   SpecClassify  classify_transaction_type                               *)
(*   SpecCat       categorize_transaction (main.py and api.py)             *)
(*   SpecParse     the statement parsers, one action per line read         *)
(*   SpecDetect    detect_statement_format on a first page                 *)
(*   SpecDisplay   the per-statement reconciliation table                  *)
(*   SpecDispatch  parse_pdf_transactions from the OCR balances to return  *)
(*   SpecOcrBalances  ocr_extract_balances, one action per OCR attempt     *)
(*   SpecRecat     recategorize_all_transactions and the editor's change   *)
(*   SpecServer    api_server: upload_statement, switch_transaction_type   *)
(***************************************************************************)
EXTENDS Integers, Sequences, FiniteSets, TLC

VARIABLES
    pc,                     \* position of the modelled call
    ocr_opening_balance,    \* main.py:933, cents
    ocr_closing_balance,
    reg_opening_balance,    \* balances returned by the statement parser, cents
    reg_closing_balance,
    opening_balance,        \* main.py:954, the reconciled balances
    closing_balance,
    warnings,               \* st.warning discrepancy data, main.py:961/966
    details,                \* argument of classify / categorize
    vendor_map,             \* insertion-ordered mapping, a sequence of entries
    result,                 \* what the modelled call returned
    pdf,                    \* the document: a sequence of pages, each a sequence of lines
    parser,                 \* which parsing path reads the document
    page_no,
    line_no,
    data,                   \* the list of transaction records built so far
    current_date,           \* main.py:440
    statement_month,        \* main.py:307
    statement_year,         \* main.py:306
    year_now,               \* pd.Timestamp.now().year
    config_no,              \* main.py:836, the index of the OCR configuration tried
    region_no,              \* main.py:881, the index of the balance region read
    pdf_files,              \* the stored PDFFile rows (models.py:44-58)
    updated_count,          \* main.py:1139
    calls,                  \* the calls of recategorize_all_transactions that returned
                            \* since the editor last changed a row
    row,                    \* main.py:1747, the row the editor changed
    request,                \* api_server.py:92-94, 161-164, the request being answered
    transactions            \* api_server.py:113, the transactions parsed from the upload

vars == <<pc, ocr_opening_balance, ocr_closing_balance, reg_opening_balance,
          reg_closing_balance, opening_balance, closing_balance, warnings,
          details, vendor_map, result, pdf, parser, page_no, line_no, data,
          current_date, statement_month, statement_year, year_now, config_no,
          region_no, pdf_files, updated_count, calls, row,
          request, transactions>>

balance_vars == <<ocr_opening_balance, ocr_closing_balance, reg_opening_balance,
                  reg_closing_balance, opening_balance, closing_balance, warnings>>
call_vars == <<details, vendor_map, result>>
parse_vars == <<pdf, parser, page_no, line_no, data, current_date,
                statement_month, statement_year, year_now, config_no, region_no,
                pdf_files, updated_count, calls, row,
                request, transactions>>

None == "None"

(***************************************************************************)
(* Bounds of the model.                                                    *)
(***************************************************************************)
MaxCents == 4       \* balances range over -1..MaxCents cents
MaxFrags == 2       \* a details string is made of at most MaxFrags fragments
MaxMapLen == 3      \* entries of a vendor mapping
MaxLines == 2       \* body lines of a document

(***************************************************************************)
(* Characters and strings (Python str operations).                         *)
(***************************************************************************)
Char(s, i) == IF 1 <= i /\ i <= Len(s) THEN SubSeq(s, i, i) ELSE ""

Digits == {"0", "1", "2", "3", "4", "5", "6", "7", "8", "9"}
UpperLetters == {"A", "B", "C", "D", "E", "F", "G", "H", "I", "J", "K", "L", "M",
                 "N", "O", "P", "Q", "R", "S", "T", "U", "V", "W", "X", "Y", "Z"}
LowerLetters == {"a", "b", "c", "d", "e", "f", "g", "h", "i", "j", "k", "l", "m",
                 "n", "o", "p", "q", "r", "s", "t", "u", "v", "w", "x", "y", "z"}

\* str.lower() of one character
LowerOf ==
    "A" :> "a" @@ "B" :> "b" @@ "C" :> "c" @@ "D" :> "d" @@ "E" :> "e" @@ "F" :> "f"
    @@ "G" :> "g" @@ "H" :> "h" @@ "I" :> "i" @@ "J" :> "j" @@ "K" :> "k" @@ "L" :> "l"
    @@ "M" :> "m" @@ "N" :> "n" @@ "O" :> "o" @@ "P" :> "p" @@ "Q" :> "q" @@ "R" :> "r"
    @@ "S" :> "s" @@ "T" :> "t" @@ "U" :> "u" @@ "V" :> "v" @@ "W" :> "w" @@ "X" :> "x"
    @@ "Y" :> "y" @@ "Z" :> "z"

IsDigit(c) == c \in Digits
IsSpace(c) == c \in {" ", "\t", "\n"}
\* \w of Python's re on str
WordChars == Digits \cup UpperLetters \cup LowerLetters \cup {"_"}
IsWordChar(c) == c \in WordChars

DigitVal(c) ==
    CASE c = "0" -> 0 [] c = "1" -> 1 [] c = "2" -> 2 [] c = "3" -> 3
      [] c = "4" -> 4 [] c = "5" -> 5 [] c = "6" -> 6 [] c = "7" -> 7
      [] c = "8" -> 8 [] c = "9" -> 9

LowerChar(c) == IF c \in UpperLetters THEN LowerOf[c] ELSE c

RECURSIVE Lower(_)
\* str.lower()
Lower(s) == IF s = "" THEN "" ELSE LowerChar(Char(s, 1)) \o Lower(SubSeq(s, 2, Len(s)))

\* k in s
Contains(s, k) == \E i \in 1..(Len(s) - Len(k) + 1) : SubSeq(s, i, i + Len(k) - 1) = k

\* s[i:] starts with k
StartsAt(s, i, k) == i >= 1 /\ i + Len(k) - 1 <= Len(s) /\ SubSeq(s, i, i + Len(k) - 1) = k

RECURSIVE LStrip(_)
LStrip(s) == IF s # "" /\ IsSpace(Char(s, 1)) THEN LStrip(SubSeq(s, 2, Len(s))) ELSE s
RECURSIVE RStrip(_)
RStrip(s) == IF s # "" /\ IsSpace(Char(s, Len(s))) THEN RStrip(SubSeq(s, 1, Len(s) - 1)) ELSE s
\* str.strip()
Strip(s) == RStrip(LStrip(s))

\* The first index >= i of s holding a whitespace character, or Len(s)+1.
RECURSIVE WordEnd(_, _)
WordEnd(s, i) == IF i > Len(s) \/ IsSpace(Char(s, i)) THEN i ELSE WordEnd(s, i + 1)

RECURSIVE Split(_)
\* str.split(): the maximal runs of non-whitespace characters, in order
Split(s) ==
    LET t == LStrip(s)
        e == WordEnd(t, 1)
    IN  IF t = "" THEN << >>
        ELSE <<SubSeq(t, 1, e - 1)>> \o Split(SubSeq(t, e, Len(t)))

RECURSIVE Join(_, _)
\* sep.join(words)
Join(words, sep) ==
    IF words = << >> THEN ""
    ELSE IF Len(words) = 1 THEN words[1]
    ELSE words[1] \o sep \o Join(Tail(words), sep)

\* ' '.join(s.split())
CollapseSpaces(s) == Join(Split(s), " ")

RECURSIVE RemoveChar(_, _)
\* s.replace(c, "") for a single character c
RemoveChar(s, c) ==
    IF s = "" THEN ""
    ELSE (IF Char(s, 1) = c THEN "" ELSE Char(s, 1)) \o RemoveChar(SubSeq(s, 2, Len(s)), c)

Abs(n) == IF n < 0 THEN 0 - n ELSE n

Range(f) == {f[i] : i \in DOMAIN f}

(***************************************************************************)
(* Balance reconciliation (main.py:953-995).                               *)
(*                                                                         *)
(* Balances are floats parsed from two-decimal texts; the model holds them *)
(* in cents.  The code compares abs(a - b) of two such doubles with the    *)
(* double 0.01.  For equal cents the difference is 0.0, for two cents or   *)
(* more it is above 0.01, and for exactly one cent the IEEE-754 result     *)
(* depends on the operands: it is 0.01 exactly for 0.01 and 0.02 and       *)
(* below 0.01 for the lower operands listed in OneCentBelow (of 2..17).    *)
(***************************************************************************)
OneCentBelow == {2, 5, 7, 8, 10, 11, 14, 17}

Min(a, b) == IF a < b THEN a ELSE b

\* how abs(a/100 - b/100), computed in doubles, compares with 0.01
FloatAbsDiff(a, b) ==
    IF a = b THEN "lt"
    ELSE IF Abs(a - b) >= 2 THEN "gt"
    ELSE IF Min(a, b) = 1 THEN "eq"
    ELSE IF Min(a, b) \in OneCentBelow THEN "lt"
    ELSE "gt"

\* the mutant of select_most_reliable_balance: OCR preferred on a discrepancy
select_most_reliable_balance_ocr(ocr_balance, regular_balance) ==
    IF ocr_balance > 0 THEN ocr_balance
    ELSE IF regular_balance > 0 THEN regular_balance
    ELSE 0

select_most_reliable_balance(ocr_balance, regular_balance) ==
    IF ocr_balance > 0 /\ regular_balance > 0
    THEN IF FloatAbsDiff(ocr_balance, regular_balance) = "lt"
         THEN ocr_balance
         ELSE regular_balance
    ELSE IF ocr_balance > 0 THEN ocr_balance
    ELSE IF regular_balance > 0 THEN regular_balance
    ELSE 0

\* main.py:958-966: the discrepancy warning of one balance
discrepancy_warning(which, selected, ocr_balance, regular_balance) ==
    IF /\ selected > 0
       /\ FloatAbsDiff(ocr_balance, regular_balance) = "gt"
       /\ ocr_balance > 0
       /\ regular_balance > 0
    THEN <<[which |-> which, ocr |-> ocr_balance, regular |-> regular_balance]>>
    ELSE << >>

OcrBalances == 0..MaxCents            \* main.py:854: 0 or a sane positive value
RegBalances == (0 - 1)..MaxCents      \* main.py:316: the text pattern admits a sign

IdleCall == /\ details = ""
            /\ vendor_map = << >>
            /\ result = None

IdleParse == /\ pdf = << >>
             /\ parser = None
             /\ page_no = 0
             /\ line_no = 0
             /\ data = << >>
             /\ current_date = None
             /\ statement_month = None
             /\ statement_year = 0
             /\ year_now = 0
             /\ config_no = 0
             /\ region_no = 0
             /\ pdf_files = << >>
             /\ updated_count = 0
             /\ calls = 0
             /\ row = << >>
             /\ request = << >>
             /\ transactions = << >>

IdleBalance == /\ ocr_opening_balance = 0
               /\ ocr_closing_balance = 0
               /\ reg_opening_balance = 0
               /\ reg_closing_balance = 0
               /\ opening_balance = 0
               /\ closing_balance = 0
               /\ warnings = << >>

\* the state of parse_pdf_transactions when OCR and the parser have returned
InitBalance ==
    /\ pc = "reconcile"
    /\ ocr_opening_balance \in OcrBalances
    /\ ocr_closing_balance \in OcrBalances
    /\ reg_opening_balance \in RegBalances
    /\ reg_closing_balance \in RegBalances
    /\ opening_balance = 0
    /\ closing_balance = 0
    /\ warnings = << >>
    /\ IdleCall
    /\ IdleParse

\* main.py:953-968
Reconcile ==
    /\ pc = "reconcile"
    /\ LET o == select_most_reliable_balance(ocr_opening_balance, reg_opening_balance)
           c == select_most_reliable_balance(ocr_closing_balance, reg_closing_balance)
       IN  /\ opening_balance' = o
           /\ closing_balance' = c
           /\ warnings' =
                discrepancy_warning("opening", o, ocr_opening_balance, reg_opening_balance)
                \o discrepancy_warning("closing", c, ocr_closing_balance, reg_closing_balance)
    /\ pc' = "returned"
    /\ UNCHANGED <<ocr_opening_balance, ocr_closing_balance, reg_opening_balance,
                   reg_closing_balance>>
    /\ UNCHANGED call_vars
    /\ UNCHANGED parse_vars

NextBalance == Reconcile

SpecBalance == InitBalance /\ [][NextBalance]_vars

Present(b) == b > 0

\* what one reconciled balance must be, given its two candidates
ReconciledAsClaimed(o, r, sel) ==
    /\ (Present(o) /\ Present(r) /\ Abs(o - r) <= 1)
          => (Abs(sel - o) <= 1 /\ Abs(sel - r) <= 1)
    /\ (Present(o) /\ Present(r) /\ Abs(o - r) > 1) => sel = r
    /\ (Present(o) /\ ~Present(r)) => sel = o
    /\ (~Present(o) /\ Present(r)) => sel = r
    /\ (~Present(o) /\ ~Present(r)) => sel = 0

\* C2: each reconciled balance is within one cent of both candidates when they
\* are present and at most one cent apart, is the text-pattern value when they
\* are present and more than one cent apart, is the only present candidate
\* when one is missing, and is 0 when both are missing.
C2_Reconciled ==
    pc = "returned" =>
        /\ ReconciledAsClaimed(ocr_opening_balance, reg_opening_balance, opening_balance)
        /\ ReconciledAsClaimed(ocr_closing_balance, reg_closing_balance, closing_balance)

C2_Witness ==
    /\ pc = "returned"
    /\ ocr_opening_balance = 1 /\ reg_opening_balance = 4 /\ opening_balance = 4
    /\ ocr_closing_balance = 3 /\ reg_closing_balance = 3 /\ closing_balance = 3

Warned(which) == \E i \in DOMAIN warnings : warnings[i].which = which

\* the text value was taken over a different OCR value
TextPreferred(o, r, sel) == Present(o) /\ Present(r) /\ o # r /\ sel = r

\* C3: a discrepancy warning is surfaced exactly when both balances are
\* present and the text value was taken over a disagreeing OCR value, and it
\* carries both values.
C3_WarningIffTextPreferred ==
    pc = "returned" =>
        /\ Warned("opening")
             <=> TextPreferred(ocr_opening_balance, reg_opening_balance, opening_balance)
        /\ Warned("closing")
             <=> TextPreferred(ocr_closing_balance, reg_closing_balance, closing_balance)
        /\ \A i \in DOMAIN warnings :
             /\ warnings[i].which = "opening" =>
                  /\ warnings[i].ocr = ocr_opening_balance
                  /\ warnings[i].regular = reg_opening_balance
             /\ warnings[i].which = "closing" =>
                  /\ warnings[i].ocr = ocr_closing_balance
                  /\ warnings[i].regular = reg_closing_balance

(***************************************************************************)
(* classify_transaction_type (main.py:113-126).                            *)
(***************************************************************************)
credit_keywords == <<"rewards", "rebate", "refund", "e-transfer reclaim",
                     "e-transfer paydirect">>

debit_keywords == <<"retail", "debit", "purchase", "fulfill request", "e-transfer",
                    "bill", "charge", "petro", "service", "withdrawal">>

\* any(k in text for k in keywords)
AnyKeywordIn(keywords, text) == \E i \in DOMAIN keywords : Contains(text, keywords[i])

\* the mutant of classify_transaction_type: the debit keywords are tried first
classify_transaction_type_debit_first(d) ==
    LET text == Lower(d)
    IN  IF AnyKeywordIn(debit_keywords, text) THEN "Debit" ELSE "Credit"

classify_transaction_type(d) ==
    LET text == Lower(d)
    IN  IF AnyKeywordIn(credit_keywords, text) THEN "Credit"
        ELSE IF AnyKeywordIn(debit_keywords, text) THEN "Debit"
        ELSE "Credit"

\* the pieces the details of the classifier runs are made of
ClassifyFragments ==
    {"refund", "REBATE", "Rewards", "e-transfer", " reclaim", " paydirect",
     "retail", "Debit", "purchase", "fulfill", " request", "bill", "charge",
     "PETRO", "service", "withdrawal", "coffee", " ", "fund"}

RECURSIVE Concat(_)
Concat(ws) == IF ws = << >> THEN "" ELSE ws[1] \o Concat(Tail(ws))

SeqsUpTo(S, n) == UNION {[1..k -> S] : k \in 0..n}

ClassifyInputs == {Concat(ws) : ws \in SeqsUpTo(ClassifyFragments, MaxFrags)}

InitClassify ==
    /\ pc = "call"
    /\ details \in ClassifyInputs
    /\ vendor_map = << >>
    /\ result = None
    /\ IdleBalance
    /\ IdleParse

Classify ==
    /\ pc = "call"
    /\ result' = classify_transaction_type(details)
    /\ pc' = "classified"
    /\ UNCHANGED <<details, vendor_map>>
    /\ UNCHANGED balance_vars
    /\ UNCHANGED parse_vars

NextClassify == Classify

SpecClassify == InitClassify /\ [][NextClassify]_vars

\* the keyword sets as the claim lists them
ClaimedCreditWords == {"rewards", "rebate", "refund", "e-transfer reclaim",
                       "e-transfer paydirect"}
ClaimedDebitWords == {"retail", "debit", "purchase", "fulfill request", "e-transfer",
                      "bill", "charge", "petro", "service", "withdrawal"}
HasCreditWord(d) == \E k \in ClaimedCreditWords : Contains(Lower(d), k)
HasDebitWord(d) == \E k \in ClaimedDebitWords : Contains(Lower(d), k)

\* C6: the type is Credit when the lowercased details hold a credit keyword,
\* whatever else they hold; otherwise Debit when they hold a debit keyword;
\* otherwise Credit.
C6_OrderedKeywordRule ==
    pc = "classified" =>
        /\ HasCreditWord(details) => result = "Credit"
        /\ (~HasCreditWord(details) /\ HasDebitWord(details)) => result = "Debit"
        /\ (~HasCreditWord(details) /\ ~HasDebitWord(details)) => result = "Credit"

C6_Witness ==
    /\ pc = "classified"
    /\ HasCreditWord(details)
    /\ HasDebitWord(details)
    /\ Contains(Lower(details), "retail")
    /\ result = "Credit"

(***************************************************************************)
(* categorize_transaction (main.py:998-1027 and api.py:95-133).            *)
(*                                                                         *)
(* A vendor mapping is a Python dict, iterated in insertion order: a       *)
(* sequence of entries with distinct keys.  An entry whose is_str is FALSE *)
(* stands for a key that is no str; key then is its text.                  *)
(***************************************************************************)
SentinelKey == "__custom_categories__"
Uncategorized == "Uncategorized"

\* the mutant of SkippedKey: only keys that are no str are skipped
SkippedKey_no_sentinel(e) == ~e.is_str

\* main.py:1013-1017, api.py:105-108
SkippedKey(e) == (e.is_str /\ e.key = SentinelKey) \/ ~e.is_str

RECURSIVE RemoveDigits(_)
\* re.sub(r'[0-9]+', '', s)
RemoveDigits(s) ==
    IF s = "" THEN ""
    ELSE (IF IsDigit(Char(s, 1)) THEN "" ELSE Char(s, 1))
         \o RemoveDigits(SubSeq(s, 2, Len(s)))

RECURSIVE PunctToSpace(_)
\* re.sub(r'[^\w\s]', ' ', s)
PunctToSpace(s) ==
    IF s = "" THEN ""
    ELSE (IF IsWordChar(Char(s, 1)) \/ IsSpace(Char(s, 1)) THEN Char(s, 1) ELSE " ")
         \o PunctToSpace(SubSeq(s, 2, Len(s)))

\* main.py:1020-1022, the one test main.py makes of a key
MainKeyMatches(vendor_substring, d, main_text) ==
    \/ Contains(d, vendor_substring)
    \/ Contains(main_text, vendor_substring)
    \/ \E word \in Range(Split(vendor_substring)) : word \in Range(Split(d))

RECURSIVE MainLoop(_, _, _, _)
\* main.py:1012-1027, the loop from entry i on
MainLoop(vm, i, d, main_text) ==
    IF i > Len(vm) THEN Uncategorized
    ELSE IF SkippedKey(vm[i]) THEN MainLoop(vm, i + 1, d, main_text)
    ELSE IF MainKeyMatches(CollapseSpaces(Lower(vm[i].key)), d, main_text)
         THEN vm[i].category
    ELSE MainLoop(vm, i + 1, d, main_text)

\* main.py:998-1027
categorize_transaction(d0, vm) ==
    IF d0 = "" \/ vm = << >> THEN Uncategorized
    ELSE LET d == CollapseSpaces(Lower(d0))
             main_text == CollapseSpaces(PunctToSpace(RemoveDigits(d)))
         IN  MainLoop(vm, 1, d, main_text)

RECURSIVE FindWords(_)
\* set(re.findall(r'\w+', s))
FindWords(s) ==
    IF s = "" THEN {}
    ELSE IF ~IsWordChar(Char(s, 1)) THEN FindWords(SubSeq(s, 2, Len(s)))
    ELSE LET e == CHOOSE j \in 1..Len(s) :
                    /\ \A k \in 1..j : IsWordChar(Char(s, k))
                    /\ (j = Len(s) \/ ~IsWordChar(Char(s, j + 1)))
         IN  {SubSeq(s, 1, e)} \cup FindWords(SubSeq(s, e + 1, Len(s)))

\* the three tests of api.py: api.py:109, 118-119, 129-130
ApiTierMatches(tier, key, d) ==
    CASE tier = 1 -> Lower(key) = d
      [] tier = 2 -> Contains(d, Lower(key))
      [] tier = 3 -> FindWords(Lower(key)) \subseteq FindWords(d)

RECURSIVE ApiLoop(_, _, _, _)
\* one of the three loops of api.py, from entry i on; None when it falls through
ApiLoop(vm, i, tier, d) ==
    IF i > Len(vm) THEN None
    ELSE IF SkippedKey(vm[i]) THEN ApiLoop(vm, i + 1, tier, d)
    ELSE IF ApiTierMatches(tier, vm[i].key, d) THEN vm[i].category
    ELSE ApiLoop(vm, i + 1, tier, d)

\* api.py:95-133
api_categorize_transaction(d0, vm) ==
    IF d0 = "" \/ vm = << >> THEN Uncategorized
    ELSE LET d == Strip(Lower(d0))
             t1 == ApiLoop(vm, 1, 1, d)
             t2 == ApiLoop(vm, 1, 2, d)
             t3 == ApiLoop(vm, 1, 3, d)
         IN  IF t1 # None THEN t1
             ELSE IF t2 # None THEN t2
             ELSE IF t3 # None THEN t3
             ELSE Uncategorized

\* the inputs of the categorizer runs
CatDetails == {"costco gas #1234", "costco gas", "COSTCO  Gas", "shell gas",
               "costco-gas 77", SentinelKey, "walmart"}
VendorKeys == {"costco", "costco gas", "gas station", "Costco Gas"}
Categories == {"Groceries", "Fuel"}
SentinelValue == "<custom category list>"

VendorEntries ==
    {[key |-> k, is_str |-> TRUE, category |-> c] : k \in VendorKeys, c \in Categories}
    \cup {[key |-> SentinelKey, is_str |-> TRUE, category |-> SentinelValue]}
    \cup {[key |-> "gas", is_str |-> FALSE, category |-> c] : c \in Categories}

\* a dict holds each key once
VendorMaps ==
    {vm \in SeqsUpTo(VendorEntries, MaxMapLen) :
        \A i, j \in DOMAIN vm :
            (vm[i].key = vm[j].key /\ vm[i].is_str = vm[j].is_str) => i = j}

InitCat ==
    /\ pc = "call"
    /\ details \in CatDetails
    /\ vendor_map \in VendorMaps
    /\ result = None
    /\ IdleBalance
    /\ IdleParse

\* a call of main.py's categorize_transaction
CategorizeMain ==
    /\ pc = "call"
    /\ result' = [fn |-> "main", category |-> categorize_transaction(details, vendor_map)]
    /\ pc' = "categorized"
    /\ UNCHANGED <<details, vendor_map>>
    /\ UNCHANGED balance_vars
    /\ UNCHANGED parse_vars

\* a call of api.py's categorize_transaction
CategorizeApi ==
    /\ pc = "call"
    /\ result' = [fn |-> "api", category |-> api_categorize_transaction(details, vendor_map)]
    /\ pc' = "categorized"
    /\ UNCHANGED <<details, vendor_map>>
    /\ UNCHANGED balance_vars
    /\ UNCHANGED parse_vars

NextCat == CategorizeMain \/ CategorizeApi

SpecCat == InitCat /\ [][NextCat]_vars

\* the normalization of the design: lowercase, whitespace collapsed
Normalized(s) == CollapseSpaces(Lower(s))

\* the entries that are vendor keys
RealIdx(vm) == {i \in DOMAIN vm : vm[i].is_str /\ vm[i].key # SentinelKey}
ExactIdx(d, vm) == {i \in RealIdx(vm) : Normalized(vm[i].key) = Normalized(d)}
SubstrIdx(d, vm) == {i \in RealIdx(vm) : Contains(Normalized(d), Normalized(vm[i].key))}
CategoriesAt(vm, I) == {vm[i].category : i \in I}
MinOf(I) == CHOOSE i \in I : \A j \in I : i <= j

ReturnedBy(fn) == pc = "categorized" /\ result.fn = fn

\* C7: main.py's categorizer returns the category of a key equal to the
\* normalized details when there is one, whatever precedes it in the mapping,
\* and otherwise the category of a key that is a substring of the details
\* when there is one, even after a key that matches only by words.
C7_TierPrecedenceMain ==
    ReturnedBy("main") =>
        /\ ExactIdx(details, vendor_map) # {} =>
             result.category \in CategoriesAt(vendor_map, ExactIdx(details, vendor_map))
        /\ (ExactIdx(details, vendor_map) = {} /\ SubstrIdx(details, vendor_map) # {}) =>
             result.category \in CategoriesAt(vendor_map, SubstrIdx(details, vendor_map))

SelectEntries(vm, keep(_)) ==
    LET F[i \in 0..Len(vm)] ==
            IF i = 0 THEN << >>
            ELSE IF keep(vm[i]) THEN Append(F[i - 1], vm[i]) ELSE F[i - 1]
    IN  F[Len(vm)]

IsVendorEntry(e) == e.is_str /\ e.key # SentinelKey

\* the mapping without the sentinel and without the keys that are no str
WithoutSkipped(vm) == SelectEntries(vm, IsVendorEntry)

\* C8: either categorizer returns what it returns on the mapping with the
\* sentinel key and the non-string keys removed, and never the value stored
\* under the sentinel.
C8_SentinelAndNonStringSkipped ==
    /\ ReturnedBy("main") =>
         /\ result.category = categorize_transaction(details, WithoutSkipped(vendor_map))
         /\ result.category # SentinelValue
    /\ ReturnedBy("api") =>
         /\ result.category = api_categorize_transaction(details, WithoutSkipped(vendor_map))
         /\ result.category # SentinelValue

C8_Witness ==
    /\ ReturnedBy("main")
    /\ details = SentinelKey
    /\ \E i \in DOMAIN vendor_map : vendor_map[i].key = SentinelKey
    /\ \E i \in DOMAIN vendor_map : ~vendor_map[i].is_str
    /\ result.category = Uncategorized

\* C9: with no key equal to the details and several keys substrings of the
\* normalized details, the category returned is that of the first of them in
\* insertion order.
C9_FirstSubstringWins ==
    (/\ ReturnedBy("main")
     /\ ExactIdx(details, vendor_map) = {}
     /\ Cardinality(SubstrIdx(details, vendor_map)) >= 2)
        => result.category = vendor_map[MinOf(SubstrIdx(details, vendor_map))].category

(***************************************************************************)
(* Matching primitives shared by the statement parsers.                    *)
(***************************************************************************)
MonthAbbrevs == {"jan", "feb", "mar", "apr", "may", "jun",
                 "jul", "aug", "sep", "oct", "nov", "dec"}

\* (?:jan|feb|...|dec) at index i
MonthAt(s, i) == i >= 1 /\ i + 2 <= Len(s) /\ SubSeq(s, i, i + 2) \in MonthAbbrevs

\* \d{1,2} at index i: the number of digits taken, 0 when there is none
DayLen(s, i) ==
    IF ~IsDigit(Char(s, i)) THEN 0
    ELSE IF IsDigit(Char(s, i + 1)) THEN 2 ELSE 1

RECURSIVE SkipSpaces(_, _)
\* \s* at index i: the index after the whitespace
SkipSpaces(s, i) == IF IsSpace(Char(s, i)) THEN SkipSpaces(s, i + 1) ELSE i

RECURSIVE RunEnd(_, _)
\* [\d,]* at index i: the index of the last character taken, i-1 when none
RunEnd(s, i) ==
    IF IsDigit(Char(s, i)) \/ Char(s, i) = "," THEN RunEnd(s, i + 1) ELSE i - 1

\* \.\d{2} at index i
DecimalsAt(s, i) == Char(s, i) = "." /\ IsDigit(Char(s, i + 1)) /\ IsDigit(Char(s, i + 2))

\* [\d,]+\.\d{2} at index i: the index of its last character, 0 when no match
AmountEnd(s, i) ==
    LET r == RunEnd(s, i)
    IN  IF r >= i /\ DecimalsAt(s, r + 1) THEN r + 3 ELSE 0

\* -?[\d,]+\.\d{2} at index i
SignedAmountEnd(s, i) == AmountEnd(s, IF Char(s, i) = "-" THEN i + 1 ELSE i)

\* \d[\d,]+\.\d{2} at index i (main.py:347)
TwoDigitAmountEnd(s, i) ==
    IF IsDigit(Char(s, i)) /\ RunEnd(s, i + 1) >= i + 1 THEN AmountEnd(s, i) ELSE 0

RECURSIVE DigitsValue(_, _)
\* int() of a text of digits, acc the value of the digits read so far
DigitsValue(s, acc) ==
    IF s = "" THEN acc
    ELSE DigitsValue(SubSeq(s, 2, Len(s)), 10 * acc + DigitVal(Char(s, 1)))

\* the mutant of AmountCents: the digits before the last separator are lost
AmountCents_last_group(text) ==
    LET C == {i \in 1..Len(text) : Char(text, i) = ","}
        neg == Char(text, 1) = "-"
        u == IF C # {}
             THEN SubSeq(text, (CHOOSE i \in C : \A j \in C : j <= i) + 1, Len(text))
             ELSE IF neg THEN SubSeq(text, 2, Len(text)) ELSE text
        v == DigitsValue(SubSeq(u, 1, Len(u) - 3), 0) * 100
               + DigitsValue(SubSeq(u, Len(u) - 1, Len(u)), 0)
    IN  IF neg THEN 0 - v ELSE v

\* float(text.replace(",", "")) of an amount text with two decimals, in cents
AmountCents(text) ==
    LET t == RemoveChar(text, ",")
        neg == Char(t, 1) = "-"
        u == IF neg THEN SubSeq(t, 2, Len(t)) ELSE t
        v == DigitsValue(SubSeq(u, 1, Len(u) - 3), 0) * 100
               + DigitsValue(SubSeq(u, Len(u) - 1, Len(u)), 0)
    IN  IF neg THEN 0 - v ELSE v

(***************************************************************************)
(* Dates: pd.to_datetime(text, errors='coerce') of "<mon> <day> <year>".   *)
(***************************************************************************)
NaT == [year |-> 0, month |-> "NaT", day |-> 0]

IsLeap(y) == (y % 4 = 0 /\ y % 100 # 0) \/ y % 400 = 0

DaysIn(mon, y) ==
    CASE mon \in {"apr", "jun", "sep", "nov"} -> 30
      [] mon = "feb" -> IF IsLeap(y) THEN 29 ELSE 28
      [] OTHER -> 31

to_datetime(mon, day_text, y) ==
    LET m == Lower(mon)
        d == DigitsValue(day_text, 0)
    IN  IF m \in MonthAbbrevs /\ d >= 1 /\ d <= DaysIn(m, y)
        THEN [year |-> y, month |-> m, day |-> d]
        ELSE NaT

(***************************************************************************)
(* parse_td_credit_card_statement (main.py:286-398) and                    *)
(* try_parse_fallback (main.py:405-431).                                   *)
(***************************************************************************)
RECURSIVE Flatten(_)
\* main.py:295-299: the lines of all pages
Flatten(pages) == IF pages = << >> THEN << >> ELSE pages[1] \o Flatten(Tail(pages))

RECURSIVE RawText(_)
\* main.py:302-303
RawText(ls) ==
    IF ls = << >> THEN "" ELSE RemoveChar(Lower(ls[1]), " ") \o RawText(Tail(ls))

RECURSIVE LettersEnd(_, _)
\* [a-z]* at index i: the index of the last letter taken, i-1 when none
LettersEnd(s, i) == IF Char(s, i) \in LowerLetters THEN LettersEnd(s, i + 1) ELSE i - 1

\* statementdate:([a-z]+)(\d{1,2}),(\d{4}) at index i (main.py:308-309)
StatementDateAt(raw, i) ==
    LET a == i + Len("statementdate:")
        e == LettersEnd(raw, a)
        n == DayLen(raw, e + 1)
        c == e + 1 + n
    IN  /\ StartsAt(raw, i, "statementdate:")
        /\ e >= a
        /\ n >= 1
        /\ Char(raw, c) = ","
        /\ \A k \in 1..4 : IsDigit(Char(raw, c + k))

\* re.search: the leftmost match, as <<[month, year]>>, or << >> for None
StatementDate(raw) ==
    LET I == {i \in 1..Len(raw) : StatementDateAt(raw, i)}
    IN  IF I = {} THEN << >>
        ELSE LET i == CHOOSE j \in I : \A k \in I : j <= k
                 a == i + Len("statementdate:")
                 e == LettersEnd(raw, a)
                 c == e + 1 + DayLen(raw, e + 1)
             IN  <<[month |-> SubSeq(raw, a, e),
                    year |-> DigitsValue(SubSeq(raw, c + 1, c + 4), 0)]>>

\* <anchor>[:\s]?\$(-?[\d,]+\.\d{2}) at index i: the index of the "$", 0 when no match
AnchoredAmountAt(raw, i, anchor, optional_colon) ==
    LET a == i + Len(anchor)
        d == IF optional_colon /\ (Char(raw, a) = ":" \/ IsSpace(Char(raw, a)))
             THEN a + 1 ELSE a
    IN  IF StartsAt(raw, i, anchor) /\ Char(raw, d) = "$" /\ SignedAmountEnd(raw, d + 1) > 0
        THEN d ELSE 0

\* re.search of an anchored amount: <<its value in cents>>, or << >> for None
AnchoredAmount(raw, anchor, optional_colon) ==
    LET I == {i \in 1..Len(raw) : AnchoredAmountAt(raw, i, anchor, optional_colon) > 0}
    IN  IF I = {} THEN << >>
        ELSE LET i == CHOOSE j \in I : \A k \in I : j <= k
                 d == AnchoredAmountAt(raw, i, anchor, optional_colon)
             IN  <<AmountCents(SubSeq(raw, d + 1, SignedAmountEnd(raw, d + 1)))>>

\* main.py:314-325
CCOpeningBalance(raw) ==
    LET m == AnchoredAmount(raw, "previousstatementbalance", TRUE)
        alt == AnchoredAmount(raw, "payment-thankyou-", FALSE)
    IN  IF m # << >> THEN m[1] ELSE IF alt # << >> THEN alt[1] ELSE 0

\* main.py:327-334
CCClosingBalance(raw) ==
    LET m == AnchoredAmount(raw, "newbalance", TRUE)
    IN  IF m # << >> THEN m[1] ELSE 0

\* (mon)(\d{1,2})\s*(mon)(\d{1,2})\s+ at the start of a line: the two dates and
\* where the description starts; ok is FALSE when the line does not start so
DateHead(s) ==
    LET n1 == DayLen(s, 4)
        j == SkipSpaces(s, 4 + n1)
        n2 == DayLen(s, j + 3)
        k == j + 3 + n2
    IN  IF MonthAt(s, 1) /\ n1 >= 1 /\ MonthAt(s, j) /\ n2 >= 1 /\ IsSpace(Char(s, k))
        THEN [ok |-> TRUE, post_month |-> SubSeq(s, 1, 3), post_day |-> SubSeq(s, 4, 3 + n1),
              spaces |-> SkipSpaces(s, k) - k, desc_start |-> SkipSpaces(s, k)]
        ELSE [ok |-> FALSE]

\* main.py:353-358 and 413-417: the year given to a transaction
RolloverYear(txn_month, st_month, st_year) ==
    IF txn_month = "dec" /\ st_month = "jan" THEN st_year - 1 ELSE st_year

\* the mutant of SignedToRecord: the amount keeps its sign
SignedToRecord_keep_sign(date, desc, amount_signed) ==
    [date |-> date, details |-> Strip(desc), amount |-> amount_signed,
     transaction_type |-> IF amount_signed > 0 THEN "Debit" ELSE "Credit",
     category |-> Uncategorized, bank |-> "TD", statement_type |-> "Credit Card"]

\* main.py:365-376, 420-430, 677-687: the record of a signed amount
SignedToRecord(date, desc, amount_signed) ==
    [date |-> date, details |-> Strip(desc), amount |-> Abs(amount_signed),
     transaction_type |-> IF amount_signed > 0 THEN "Debit" ELSE "Credit",
     category |-> Uncategorized, bank |-> "TD", statement_type |-> "Credit Card"]

\* main.py:346-376: the primary pattern on a lowercased line: <<record>>, or
\* << >> when the line does not match.
\* (.*?)(-?)\$(\d[\d,]+\.\d{2}) takes the leftmost "$" that an amount follows, and
\* the "-" right before it when there is one.
PrimaryMatch(line, st_month, st_year) ==
    LET h == DateHead(line)
    IN  IF ~h.ok THEN << >>
        ELSE
        LET D == {d \in h.desc_start..Len(line) :
                     Char(line, d) = "$" /\ TwoDigitAmountEnd(line, d + 1) > 0}
        IN  IF D = {} THEN << >>
            ELSE
            LET d == CHOOSE x \in D : \A y \in D : x <= y
                negative_sign == d - 1 >= h.desc_start /\ Char(line, d - 1) = "-"
                desc == SubSeq(line, h.desc_start, IF negative_sign THEN d - 2 ELSE d - 1)
                amount_text == SubSeq(line, d + 1, TwoDigitAmountEnd(line, d + 1))
                amount_signed == IF negative_sign THEN AmountCents("-" \o amount_text)
                                 ELSE AmountCents(amount_text)
            IN  <<SignedToRecord(
                    to_datetime(h.post_month, h.post_day,
                                RolloverYear(h.post_month, st_month, st_year)),
                    desc, amount_signed)>>

\* main.py:405-431: <<record>>, or << >> for None.
\* (.+?)\s*\$(-?[\d,]+\.\d{2}) needs one character of description, which the
\* \s+ before it gives up when it held two or more.
try_parse_fallback(line, st_month, st_year) ==
    LET h == DateHead(line)
    IN  IF ~h.ok THEN << >>
        ELSE
        LET Valid(d) == Char(line, d) = "$" /\ SignedAmountEnd(line, d + 1) > 0
            D == {d \in (h.desc_start + 1)..Len(line) : Valid(d)}
            d == IF D # {} THEN CHOOSE x \in D : \A y \in D : x <= y
                 ELSE IF h.spaces >= 2 /\ Valid(h.desc_start) THEN h.desc_start
                 ELSE 0
        IN  IF d = 0 THEN << >>
            ELSE <<SignedToRecord(
                    to_datetime(h.post_month, h.post_day,
                                RolloverYear(h.post_month, st_month, st_year)),
                    SubSeq(line, h.desc_start, d - 1),
                    AmountCents(SubSeq(line, d + 1, SignedAmountEnd(line, d + 1))))>>

\* main.py:382, looks_like_transaction_start
LooksLikeTransactionStart(line) == MonthAt(line, 1) /\ IsDigit(Char(line, 4))

\* the mutant of AppendToLast: the text is appended without the joining space
AppendToLast_no_space(recs, text) ==
    [recs EXCEPT ![Len(recs)].details = recs[Len(recs)].details \o text]

\* data[-1]["details"] += " " + text
AppendToLast(recs, text) ==
    [recs EXCEPT ![Len(recs)].details = recs[Len(recs)].details \o " " \o text]

\* main.py:339-392, the body of the loop for one line.  buffer_line is written
\* and never read, and is left out.
CCLineStep(recs, raw_line, st_month, st_year) ==
    LET line == Lower(Strip(raw_line))
        primary == PrimaryMatch(line, st_month, st_year)
        fallback == IF LooksLikeTransactionStart(line)
                    THEN try_parse_fallback(line, st_month, st_year) ELSE << >>
    IN  IF line = "" \/ Contains(line, "statement") \/ Contains(line, "summary")
           \/ Contains(line, "balance")
        THEN recs
        ELSE IF primary # << >> THEN recs \o primary
        ELSE IF fallback # << >> THEN recs \o fallback
        ELSE IF recs # << >> THEN AppendToLast(recs, Strip(line))
        ELSE recs

(***************************************************************************)
(* detect_statement_format (main.py:243-283).                              *)
(***************************************************************************)
\* the mutant of detect_statement_format: the banks are tried in the reverse order
detect_statement_format_reversed(first_page_lines) ==
    LET text == RawText(first_page_lines)
        has(t) == Contains(text, t)
    IN  IF has("bankofmontreal") \/ has("bmo")
        THEN <<"BMO",
               IF has("bmomastercard") \/ has("creditlimit") THEN "Credit Card"
               ELSE IF has("accountsummary") \/ has("chequingaccount")
                    THEN "Chequing or Savings"
               ELSE "Unknown Type">>
        ELSE IF has("cibc")
        THEN <<"CIBC",
               IF has("accountsummary") /\ has("availablecredit") THEN "Credit Card"
               ELSE IF has("accountstatement") \/ has("depositsandwithdrawals")
                    THEN "Chequing or Savings"
               ELSE "Unknown Type">>
        ELSE IF has("royalbankofcanada") \/ has("rbcroyalbank")
        THEN <<"RBC",
               IF has("accountsummary") /\ has("openingbalance") THEN "Chequing or Savings"
               ELSE IF has("visaaccount") THEN "Credit Card"
               ELSE "Unknown Type">>
        ELSE IF has("tdcanadatrust") \/ has("tdbank")
        THEN <<"TD",
               IF has("statementdate") /\ has("previousstatement") THEN "Credit Card"
               ELSE IF has("openingbalance") /\ has("closingbalance")
                    THEN "Chequing or Savings"
               ELSE "Unknown Type">>
        ELSE <<"Unknown Bank", "Unknown Type">>

detect_statement_format(first_page_lines) ==
    LET text == RawText(first_page_lines)
        has(t) == Contains(text, t)
    IN  IF has("tdcanadatrust") \/ has("tdbank")
        THEN <<"TD",
               IF has("statementdate") /\ has("previousstatement") THEN "Credit Card"
               ELSE IF has("openingbalance") /\ has("closingbalance")
                    THEN "Chequing or Savings"
               ELSE "Unknown Type">>
        ELSE IF has("royalbankofcanada") \/ has("rbcroyalbank")
        THEN <<"RBC",
               IF has("accountsummary") /\ has("openingbalance") THEN "Chequing or Savings"
               ELSE IF has("visaaccount") THEN "Credit Card"
               ELSE "Unknown Type">>
        ELSE IF has("cibc")
        THEN <<"CIBC",
               IF has("accountsummary") /\ has("availablecredit") THEN "Credit Card"
               ELSE IF has("accountstatement") \/ has("depositsandwithdrawals")
                    THEN "Chequing or Savings"
               ELSE "Unknown Type">>
        ELSE IF has("bankofmontreal") \/ has("bmo")
        THEN <<"BMO",
               IF has("bmomastercard") \/ has("creditlimit") THEN "Credit Card"
               ELSE IF has("accountsummary") \/ has("chequingaccount")
                    THEN "Chequing or Savings"
               ELSE "Unknown Type">>
        ELSE <<"Unknown Bank", "Unknown Type">>

(***************************************************************************)
(* parse_td_chequing_statement (main.py:434-535).                          *)
(***************************************************************************)
CapMonths == {"Jan", "Feb", "Mar", "Apr", "May", "Jun",
              "Jul", "Aug", "Sep", "Oct", "Nov", "Dec"}

RECURSIVE AlphaEnd(_, _)
\* [A-Za-z]* at index i: the index of the last letter taken, i-1 when none
AlphaEnd(s, i) ==
    IF Char(s, i) \in LowerLetters \/ Char(s, i) \in UpperLetters
    THEN AlphaEnd(s, i + 1) ELSE i - 1

\* STATEMENT DATE:\s+[A-Za-z]+\s+\d{1,2},\s+(\d{4}) at index i: the index of
\* the year, 0 when no match (main.py:446-447)
ChqStatementDateAt(text, i) ==
    LET a == i + Len("STATEMENT DATE:")
        b == SkipSpaces(text, a)
        e == AlphaEnd(text, b)
        c == SkipSpaces(text, e + 1)
        n == DayLen(text, c)
        y == SkipSpaces(text, c + n + 1)
    IN  IF /\ StartsAt(text, i, "STATEMENT DATE:")
           /\ b > a /\ e >= b /\ c > e + 1 /\ n >= 1
           /\ Char(text, c + n) = ","
           /\ y > c + n + 1
           /\ \A k \in 0..3 : IsDigit(Char(text, y + k))
        THEN y ELSE 0

\* main.py:446-449
ChqStatementYear(first_page_lines, now_year) ==
    LET text == Join(first_page_lines, "\n")
        I == {i \in 1..Len(text) : ChqStatementDateAt(text, i) > 0}
    IN  IF I = {} THEN now_year
        ELSE LET i == CHOOSE j \in I : \A k \in I : j <= k
                 y == ChqStatementDateAt(text, i)
             IN  DigitsValue(SubSeq(text, y, y + 3), 0)

RECURSIVE CommaGroupsEnd(_, _)
\* (?:,\d{3})* at index i: the index of the last character taken, i-1 when none
CommaGroupsEnd(s, i) ==
    IF Char(s, i) = "," /\ IsDigit(Char(s, i + 1)) /\ IsDigit(Char(s, i + 2))
       /\ IsDigit(Char(s, i + 3))
    THEN CommaGroupsEnd(s, i + 4) ELSE i - 1

\* \d{1,3}(?:,\d{3})*\.\d{2} at index i: the index of its last character, 0 when
\* no match (main.py:466)
GroupedAmountEnd(s, i) ==
    LET n == IF ~IsDigit(Char(s, i)) THEN 0
             ELSE IF ~IsDigit(Char(s, i + 1)) THEN 1
             ELSE IF ~IsDigit(Char(s, i + 2)) THEN 2 ELSE 3
        g == CommaGroupsEnd(s, i + n)
    IN  IF n >= 1 /\ DecimalsAt(s, g + 1) THEN g + 3 ELSE 0

\* main.py:457-477: the first loop over a page's lines; << >> when no line sets
\* the opening balance
RECURSIVE OpeningScan(_, _)
OpeningScan(page, i) ==
    IF i > Len(page) THEN << >>
    ELSE LET line == Strip(page[i])
             I == {j \in 1..Len(line) : GroupedAmountEnd(line, j) > 0}
         IN  IF Contains(Lower(line), "opening balance") /\ I # {}
             THEN LET j == CHOOSE x \in I : \A y \in I : x <= y
                  IN  <<AmountCents(SubSeq(line, j, GroupedAmountEnd(line, j)))>>
             ELSE OpeningScan(page, i + 1)

\* \$?([\d,]+\.\d{2})\s*$ searched in a stripped line: <<value>> or << >>
\* (main.py:486-490)
ClosingAmount(line) ==
    LET I == {j \in 1..Len(line) : AmountEnd(line, j) = Len(line)}
    IN  IF I = {} THEN << >>
        ELSE LET j == CHOOSE x \in I : \A y \in I : x <= y
             IN  <<AmountCents(SubSeq(line, j, Len(line)))>>

\* ^((Jan|...|Dec)\s+\d{1,2})(.*) : [ok, date, rest] (main.py:498-502)
DateMatch(line) ==
    LET b == SkipSpaces(line, 4)
        n == DayLen(line, b)
    IN  IF Len(line) >= 3 /\ SubSeq(line, 1, 3) \in CapMonths /\ b > 4 /\ n >= 1
        THEN [ok |-> TRUE, date |-> SubSeq(line, 1, b + n - 1),
              rest |-> Strip(SubSeq(line, b + n, Len(line)))]
        ELSE [ok |-> FALSE, date |-> "", rest |-> line]

\* ([\d,]+\.\d{2}) ([\d,]+\.\d{2}) at index i: the index of its last character,
\* 0 when no match
PairEnd(s, i) ==
    LET e1 == AmountEnd(s, i)
    IN  IF e1 > 0 /\ Char(s, e1 + 1) = " " THEN AmountEnd(s, e1 + 2) ELSE 0

RECURSIVE FindPairs(_, _)
\* re.findall / re.split of the pair pattern from index i on: the matches, left
\* to right and not overlapping, each with the text before it (main.py:507-512)
FindPairs(s, i) ==
    LET I == {j \in i..Len(s) : PairEnd(s, j) > 0}
    IN  IF I = {} THEN << >>
        ELSE LET j == CHOOSE x \in I : \A y \in I : x <= y
             IN  <<[part |-> SubSeq(s, i, j - 1),
                    amount_str |-> SubSeq(s, j, AmountEnd(s, j))]>>
                 \o FindPairs(s, PairEnd(s, j) + 1)

\* pd.to_datetime(current_date + " <year>", errors='coerce')
ChqDate(cur_date, y) ==
    LET b == SkipSpaces(cur_date, 4)
    IN  to_datetime(SubSeq(cur_date, 1, 3), SubSeq(cur_date, b, Len(cur_date)), y)

\* the mutant of ChqRecord: the fragment before the pair is kept unstripped
ChqRecord_keeps_spaces(m, cur_date, y, bank) ==
    [date |-> ChqDate(cur_date, y), details |-> m.part,
     amount |-> AmountCents(m.amount_str),
     transaction_type |-> classify_transaction_type(Strip(m.part)),
     category |-> Uncategorized, bank |-> bank, statement_type |-> "Chequing"]

\* main.py:512-524
ChqRecord(m, cur_date, y, bank) ==
    [date |-> ChqDate(cur_date, y), details |-> Strip(m.part),
     amount |-> AmountCents(m.amount_str),
     transaction_type |-> classify_transaction_type(Strip(m.part)),
     category |-> Uncategorized, bank |-> bank, statement_type |-> "Chequing"]

\* main.py:479-527, the body of the second loop for one line, on the parser's
\* state st = [data, current_date, closing_balance]; raised tells that the line
\* raised (current_date is None at main.py:517) and the parse ends
ChqLineStep(st, raw_line, y, bank) ==
    LET line0 == Strip(raw_line)
        closing == IF Contains(Lower(line0), "closing balance")
                   THEN ClosingAmount(line0) ELSE << >>
        dm == DateMatch(line0)
        cur == IF dm.ok THEN dm.date ELSE st.current_date
        line == dm.rest
        matches == FindPairs(line, 1)
        same == [data |-> st.data, current_date |-> st.current_date,
                 closing_balance |-> st.closing_balance, raised |-> FALSE]
    IN  IF line0 = "" THEN same
        ELSE IF closing # << >> THEN [same EXCEPT !.closing_balance = closing[1]]
        ELSE IF Contains(Lower(line), "opening balance")
             THEN [same EXCEPT !.current_date = cur]
        ELSE IF matches # << >>
             THEN IF cur = None
                  THEN [same EXCEPT !.raised = TRUE]
                  ELSE [same EXCEPT
                          !.current_date = cur,
                          !.data = st.data \o
                              [i \in 1..Len(matches) |-> ChqRecord(matches[i], cur, y, bank)]]
        ELSE IF st.data # << >>
             THEN [same EXCEPT !.current_date = cur, !.data = AppendToLast(st.data, line)]
        ELSE [same EXCEPT !.current_date = cur]

(***************************************************************************)
(* advanced_ocr_extract (main.py:609-656), cluster_transactions            *)
(* (main.py:591-606) and parse_transaction_text (main.py:659-689).         *)
(***************************************************************************)
ClusterEps == 50

\* DBSCAN on the line lengths with min_samples=1: lines i and j fall in one
\* cluster when the lengths between theirs leave no gap above eps
SameCluster(ls, i, j) ==
    LET lo == Min(Len(ls[i]), Len(ls[j]))
        hi == IF Len(ls[i]) > Len(ls[j]) THEN Len(ls[i]) ELSE Len(ls[j])
        L == {Len(ls[k]) : k \in DOMAIN ls}
    IN  \A t \in L : (lo <= t /\ t < hi) => \E u \in L : t < u /\ u <= t + ClusterEps

RECURSIVE ClustersFrom(_, _)
\* the clusters in the order of their first line, each as the joined text of its
\* lines (main.py:599-606, 640-642); rest holds the indices not yet clustered
ClustersFrom(ls, rest) ==
    IF rest = {} THEN << >>
    ELSE LET first == CHOOSE i \in rest : \A j \in rest : i <= j
             members == {i \in rest : SameCluster(ls, first, i)}
             text[i \in 0..Len(ls)] ==
                 IF i = 0 THEN << >>
                 ELSE IF i \in members THEN Append(text[i - 1], ls[i]) ELSE text[i - 1]
         IN  <<Join(text[Len(ls)], " ")>> \o ClustersFrom(ls, rest \ members)

\* main.py:633: the stripped non-empty lines of a region
RegionLines(region) ==
    LET F[i \in 0..Len(region)] ==
            IF i = 0 THEN << >>
            ELSE IF Strip(region[i]) # "" THEN Append(F[i - 1], Strip(region[i]))
            ELSE F[i - 1]
    IN  F[Len(region)]

cluster_transactions(ls) == ClustersFrom(ls, DOMAIN ls)

\* \d{2}/\d{2}/\d{4} at index i
SlashDateAt(s, i) ==
    /\ \A k \in {0, 1, 3, 4, 6, 7, 8, 9} : IsDigit(Char(s, i + k))
    /\ Char(s, i + 2) = "/" /\ Char(s, i + 5) = "/"

\* -?\$[\d,]+\.\d{2} at index i: the index of its last character, 0 when no match
DollarAmountEnd(s, i) ==
    LET d == IF Char(s, i) = "-" THEN i + 1 ELSE i
    IN  IF Char(s, d) = "$" THEN AmountEnd(s, d + 1) ELSE 0

\* the amounts of a row that whitespace precedes, from index ds + 2 on
AmountsAfter(s, ds) ==
    {a \in (ds + 2)..Len(s) : IsSpace(Char(s, a - 1)) /\ DollarAmountEnd(s, a) > 0}

\* the leftmost of a set of match positions
Leftmost(I) == CHOOSE x \in I : \A y \in I : x <= y

\* gap is the length of the whitespace after the date, ds the index after it
RowAmountFrom(s, gap, ds, A) ==
    IF gap = 0 THEN 0
    ELSE IF A # {} THEN Leftmost(A)
    ELSE IF gap >= 2 /\ DollarAmountEnd(s, ds) > 0 THEN ds
    ELSE 0

\* where the amount of a match with its date at index i starts, 0 when there is
\* no match: the first \s+ takes all the whitespace after the date, (.*?) grows
\* to the first amount that whitespace precedes, and only when there is none
\* does the first \s+ give one space back to the second
RowAmountStart(s, i) ==
    RowAmountFrom(s, SkipSpaces(s, i + 10) - (i + 10), SkipSpaces(s, i + 10),
                  AmountsAfter(s, SkipSpaces(s, i + 10)))

MonthNames == <<"jan", "feb", "mar", "apr", "may", "jun",
                "jul", "aug", "sep", "oct", "nov", "dec">>

MonthName(n) == IF n \in 1..12 THEN MonthNames[n] ELSE ""

\* pd.to_datetime of "first/second/y4": the month is read first, and the day
\* first when the first field is no month; NaT stands for the exception
SlashDate(first, second, y4) ==
    IF DigitsValue(first, 0) \in 1..12
    THEN to_datetime(MonthName(DigitsValue(first, 0)), second, y4)
    ELSE to_datetime(MonthName(DigitsValue(second, 0)), first, y4)

\* main.py:671-687: the result for the match with its date at i and amount at a
RowRecord(text, i, a, date) ==
    IF date = NaT THEN [kind |-> "raise"]
    ELSE [kind |-> "ok",
          record |-> SignedToRecord(
              date, SubSeq(text, i + 10, a - 1),
              AmountCents(RemoveChar(SubSeq(text, a, DollarAmountEnd(text, a)), "$")))]

RowAt(text, i) ==
    RowRecord(text, i, RowAmountStart(text, i),
              SlashDate(SubSeq(text, i, i + 1), SubSeq(text, i + 3, i + 4),
                        DigitsValue(SubSeq(text, i + 6, i + 9), 0)))

\* the positions at which the pattern of main.py:662-668 matches
RowStarts(text) ==
    {i \in 1..Len(text) : SlashDateAt(text, i) /\ RowAmountStart(text, i) > 0}

\* main.py:659-689: [kind |-> "none"], [kind |-> "raise"] when pd.to_datetime
\* rejects the date, or [kind |-> "ok", record |-> ...]
parse_transaction_text(text) ==
    IF RowStarts(text) = {} THEN [kind |-> "none"]
    ELSE RowAt(text, Leftmost(RowStarts(text)))

RECURSIVE OcrClusters(_, _)
\* main.py:640-645 on the clusters of a region, on st = [data, raised]
OcrClusters(st, texts) ==
    IF texts = << >> \/ st.raised THEN st
    ELSE LET t == parse_transaction_text(texts[1])
         IN  OcrClusters(
                 IF t.kind = "raise" THEN [st EXCEPT !.raised = TRUE]
                 ELSE IF t.kind = "ok" THEN [st EXCEPT !.data = Append(st.data, t.record)]
                 ELSE st,
                 Tail(texts))

(***************************************************************************)
(* The documents of the parser runs.  A document is a sequence of pages, a *)
(* page a sequence of text lines.  On the OCR path a page stands for the   *)
(* OCR lines of its table region, and a page without lines for a page on   *)
(* which no table region was detected.                                     *)
(***************************************************************************)
CCHeaders ==
    {<< >>,
     <<"STATEMENT DATE: January 5, 2025">>,
     <<"Statement Date: Jan 5, 2025", "PREVIOUS STATEMENT BALANCE $1,234.56",
       "NEW BALANCE: $0.03">>,
     <<"Statement Date: Feb 5, 2025">>}

\* Lines of the shape "postMonth postDay transMonth transDay description [-]$amount"
\* with one, two and four integer digits, a line with the sign after the "$", a
\* continuation line, a line the loop skips, and a line with an impossible date.
CCBodyLines ==
    {"DEC28 DEC27 store $12.50",
     "DEC28 DEC27 store -$12.50",
     "DEC28 DEC27 store -$1,234.56",
     "jan10 jan9 store $5.00",
     "jan10 jan9 store -$5.00",
     "jan10 jan9 store $0.00",
     "jan10 jan9 store $-12.50",
     "jan10 jan9 store $12,345,678.90",
     "toronto on",
     "dec1 dec1 balance transfer $20.00",
     "FEB30 FEB28 REFUND -$10.00"}

CCDocs == {<<h, b>> : h \in CCHeaders, b \in SeqsUpTo(CCBodyLines, MaxLines)}

ChqHeaders ==
    {<< >>,
     <<"TD Canada Trust", "STATEMENT DATE: January 5, 2024",
       "Opening Balance 1,000.00", "Closing Balance $1,234.56">>}

ChqBodyLines ==
    {"Jan 15 STARBUCKS COFFEE 4.50 4.50",
     "Jan 15 STARBUCKS COFFEE 4.50  4.50",
     "Jan 16  COSTCO WHOLESALE   120.33 124.83",
     "Jan 17 PAYROLL 12,345,678.90 1,234.56",
     "Jan 16  COSTCO WHOLESALE  -120.33 124.83",
     "Dec 31 RETAIL PURCHASE 1,234.56 2,000.00 REFUND 5.00 1,995.00",
     "Jan 18 ATM 20.00 80.00 FEE 1.50 78.50 THANK YOU",
     "BILL PAYMENT 20.00 104.83",
     "Feb 30 SERVICE CHARGE 2.00 102.83",
     "TORONTO ON",
     "POINT OF SALE PURCHASE",
     "Jan 17"}

ChqDocs ==
    {<<h \o b>> : h \in ChqHeaders, b \in SeqsUpTo(ChqBodyLines, MaxLines)}
    \cup {<<h \o b, c>> : h \in ChqHeaders, b \in SeqsUpTo(ChqBodyLines, 1),
                          c \in SeqsUpTo(ChqBodyLines, 1)}
    \cup {<< >>}

OcrLines ==
    {"01/15/2025 STORE $12.50",
     "01/16/2025 PAYMENT RECEIVED -$1,234.56",
     "02/30/2025 STORE $1.00",
     "12/31/2024 A LONG DESCRIPTION OF A PURCHASE MADE AT A STORE FAR AWAY FROM HOME $0.00",
     "Total"}

OcrDocs ==
    {<<r>> : r \in SeqsUpTo(OcrLines, MaxLines)}
    \cup {<<r, q>> : r \in SeqsUpTo(OcrLines, 1), q \in SeqsUpTo(OcrLines, 1)}

Parsers == {"td_credit_card", "td_chequing", "advanced_ocr"}

DocsOf(p) ==
    CASE p = "td_credit_card" -> CCDocs
      [] p = "td_chequing" -> ChqDocs
      [] p = "advanced_ocr" -> OcrDocs

YearsNow == {2026}

InitParse ==
    /\ pc = "open"
    /\ parser \in Parsers
    /\ pdf \in DocsOf(parser)
    /\ year_now \in YearsNow
    /\ page_no = 1
    /\ line_no = 1
    /\ data = << >>
    /\ current_date = None
    /\ statement_month = None
    /\ statement_year = 0
    /\ config_no = 0
    /\ region_no = 0
    /\ pdf_files = << >>
    /\ updated_count = 0
    /\ calls = 0
    /\ row = << >>
    /\ request = << >>
    /\ transactions = << >>
    /\ IdleBalance
    /\ IdleCall

parse_frame == /\ UNCHANGED <<pdf, parser, year_now, config_no, region_no, pdf_files,
                              updated_count, calls, row,
                              request, transactions>>
               /\ UNCHANGED <<ocr_opening_balance, ocr_closing_balance, opening_balance,
                              closing_balance, warnings>>
               /\ UNCHANGED call_vars

\* main.py:294-334
CCOpen ==
    /\ pc = "open" /\ parser = "td_credit_card"
    /\ LET raw_text == RawText(Flatten(pdf))
           statement_match == StatementDate(raw_text)
       IN  /\ statement_month' = IF statement_match # << >>
                                 THEN statement_match[1].month ELSE "jan"
           /\ statement_year' = IF statement_match # << >>
                                THEN statement_match[1].year ELSE year_now
           /\ reg_opening_balance' = CCOpeningBalance(raw_text)
           /\ reg_closing_balance' = CCClosingBalance(raw_text)
    /\ pc' = "cc_lines"
    /\ UNCHANGED <<page_no, line_no, data, current_date>>
    /\ parse_frame

\* main.py:339-392, one line
CCLine ==
    /\ pc = "cc_lines" /\ line_no <= Len(Flatten(pdf))
    /\ data' = CCLineStep(data, Flatten(pdf)[line_no], statement_month, statement_year)
    /\ line_no' = line_no + 1
    /\ UNCHANGED <<pc, page_no, current_date, statement_month, statement_year,
                   reg_opening_balance, reg_closing_balance>>
    /\ parse_frame

\* main.py:398
CCReturn ==
    /\ pc = "cc_lines" /\ line_no > Len(Flatten(pdf))
    /\ pc' = "parsed"
    /\ UNCHANGED <<page_no, line_no, data, current_date, statement_month, statement_year,
                   reg_opening_balance, reg_closing_balance>>
    /\ parse_frame

\* main.py:440-449; pdf.pages[0] raises on a document without pages
ChqOpen ==
    /\ pc = "open" /\ parser = "td_chequing"
    /\ IF pdf = << >>
       THEN pc' = "parsed" /\ UNCHANGED statement_year
       ELSE /\ pc' = "chq_page"
            /\ statement_year' = ChqStatementYear(pdf[1], year_now)
    /\ UNCHANGED <<page_no, line_no, data, current_date, statement_month,
                   reg_opening_balance, reg_closing_balance>>
    /\ parse_frame

\* main.py:451-477: the start of a page and its first loop
ChqPage ==
    /\ pc = "chq_page" /\ page_no <= Len(pdf)
    /\ LET found == OpeningScan(pdf[page_no], 1)
       IN  reg_opening_balance' = IF found # << >> THEN found[1] ELSE reg_opening_balance
    /\ pc' = "chq_lines"
    /\ line_no' = 1
    /\ UNCHANGED <<page_no, data, current_date, statement_month, statement_year,
                   reg_closing_balance>>
    /\ parse_frame

\* main.py:479-527, one line; an exception ends the parse (main.py:531-535)
ChqLine ==
    /\ pc = "chq_lines" /\ line_no <= Len(pdf[page_no])
    /\ LET st == ChqLineStep([data |-> data, current_date |-> current_date,
                              closing_balance |-> reg_closing_balance],
                             pdf[page_no][line_no], statement_year,
                             detect_statement_format(pdf[1])[1])
       IN  /\ data' = st.data
           /\ current_date' = st.current_date
           /\ reg_closing_balance' = st.closing_balance
           /\ pc' = IF st.raised THEN "parsed" ELSE pc
    /\ line_no' = line_no + 1
    /\ UNCHANGED <<page_no, statement_month, statement_year, reg_opening_balance>>
    /\ parse_frame

\* the end of a page's second loop
ChqPageEnd ==
    /\ pc = "chq_lines" /\ line_no > Len(pdf[page_no])
    /\ page_no' = page_no + 1
    /\ pc' = "chq_page"
    /\ UNCHANGED <<line_no, data, current_date, statement_month, statement_year,
                   reg_opening_balance, reg_closing_balance>>
    /\ parse_frame

\* main.py:529-535
ChqReturn ==
    /\ pc = "chq_page" /\ page_no > Len(pdf)
    /\ pc' = "parsed"
    /\ UNCHANGED <<page_no, line_no, data, current_date, statement_month, statement_year,
                   reg_opening_balance, reg_closing_balance>>
    /\ parse_frame

\* main.py:617
OcrOpen ==
    /\ pc = "open" /\ parser = "advanced_ocr"
    /\ pc' = "ocr_pages"
    /\ UNCHANGED <<page_no, line_no, data, current_date, statement_month, statement_year,
                   reg_opening_balance, reg_closing_balance>>
    /\ parse_frame

\* main.py:619-650, one page; ocr_extract_balances returns what OCR reads on the
\* first page; an exception ends the extraction (main.py:652-656)
OcrPage ==
    /\ pc = "ocr_pages" /\ page_no <= Len(pdf)
    /\ LET st == OcrClusters([data |-> data, raised |-> FALSE],
                             cluster_transactions(RegionLines(pdf[page_no])))
           no_region == pdf[page_no] = << >>
       IN  /\ data' = IF no_region THEN data ELSE st.data
           /\ pc' = IF ~no_region /\ st.raised THEN "parsed" ELSE pc
           /\ IF ~no_region /\ ~st.raised /\ page_no = 1
              THEN /\ reg_opening_balance' \in OcrBalances
                   /\ reg_closing_balance' \in OcrBalances
              ELSE UNCHANGED <<reg_opening_balance, reg_closing_balance>>
    /\ page_no' = page_no + 1
    /\ UNCHANGED <<line_no, current_date, statement_month, statement_year>>
    /\ parse_frame

\* main.py:656
OcrReturn ==
    /\ pc = "ocr_pages" /\ page_no > Len(pdf)
    /\ pc' = "parsed"
    /\ UNCHANGED <<page_no, line_no, data, current_date, statement_month, statement_year,
                   reg_opening_balance, reg_closing_balance>>
    /\ parse_frame

NextParse ==
    \/ CCOpen \/ CCLine \/ CCReturn
    \/ ChqOpen \/ ChqPage \/ ChqLine \/ ChqPageEnd \/ ChqReturn
    \/ OcrOpen \/ OcrPage \/ OcrReturn

SpecParse == InitParse /\ [][NextParse]_vars

(***************************************************************************)
(* Properties of the statement parsers, under SpecParse.                   *)
(***************************************************************************)
\* the line the credit-card loop has just processed, "" before the first
LastCCLine ==
    IF parser = "td_credit_card" /\ pc = "cc_lines" /\ line_no >= 2
    THEN Flatten(pdf)[line_no - 1] ELSE ""

\* credit-card lines that print a negative amount, with its magnitude in cents
NegativeSourceLines ==
    {<<"DEC28 DEC27 store -$12.50", 1250>>,
     <<"DEC28 DEC27 store -$1,234.56", 123456>>,
     <<"jan10 jan9 store -$5.00", 500>>,
     <<"jan10 jan9 store $-12.50", 1250>>,
     <<"FEB30 FEB28 REFUND -$10.00", 1000>>}

\* C1: every record of every parsing path (credit-card primary and fallback
\* pattern, columnar chequing parser, OCR row parser) has amount >= 0, and a
\* credit-card line that prints a negative amount is stored with its magnitude.
C1_AmountNonNegative ==
    /\ \A i \in 1..Len(data) : data[i].amount >= 0
    /\ \A n \in NegativeSourceLines :
           LastCCLine = n[1] => data # << >> /\ data[Len(data)].amount = n[2]

\* a finished credit-card parse holding the record of a line printed "-$12.50"
C1_Witness ==
    /\ parser = "td_credit_card" /\ pc = "parsed"
    /\ \E i \in 1..Len(data) :
           data[i].amount = 1250 /\ data[i].transaction_type = "Credit"

\* the statement-date line of a credit-card document, "" when it has none
StatementDateLine ==
    IF parser = "td_credit_card" /\ pdf[1] # << >> THEN Lower(pdf[1][1]) ELSE ""

\* the year Y the statement-date line names
StatedYear ==
    DigitsValue(SubSeq(StatementDateLine, Len(StatementDateLine) - 3,
                       Len(StatementDateLine)), 0)

\* the statement-date line names a January date, abbreviated or in full
StatedJanuary ==
    \/ Contains(StatementDateLine, "statement date: jan ")
    \/ Contains(StatementDateLine, "statement date: january ")

\* C4: on a statement whose statement-date line names a January date of year Y,
\* abbreviated or in full, a December transaction gets year Y-1 and any other
\* transaction year Y; on a statement of another month every transaction gets Y.
C4_YearRollover ==
    StatementDateLine # "" =>
        \A i \in 1..Len(data) :
            data[i].date # NaT =>
                data[i].date.year =
                    IF StatedJanuary /\ data[i].date.month = "dec"
                    THEN StatedYear - 1 ELSE StatedYear

\* the amounts of the shape [-]$amount the credit-card lines print
ClaimedAmounts == {"$12.50", "-$12.50", "-$1,234.56", "$5.00", "-$5.00", "$0.00"}

\* C5: for a credit-card line "postMonth postDay transMonth transDay description
\* [-]$amount", with one or more integer digits, the record is Credit iff the
\* amount carries a leading minus sign: the description is the printed one and
\* the minus sign is not left in it.
C5_SignDecidesType ==
    \A d \in {"DEC28 DEC27", "jan10 jan9"}, a \in ClaimedAmounts :
        LastCCLine = d \o " store " \o a =>
            /\ data # << >>
            /\ data[Len(data)].details = "store"
            /\ data[Len(data)].transaction_type =
                   IF Char(a, 1) = "-" THEN "Credit" ELSE "Debit"

(***************************************************************************)
(* Format detection on the first page of a document, under SpecDetect.     *)
(***************************************************************************)
BankLines == <<"TD Canada Trust", "TD Bank", "Royal Bank of Canada", "RBC Royal Bank",
               "CIBC", "Bank of Montreal", "BMO">>

TypeLines == <<"Statement Date: Jan 5, 2025", "Previous Statement", "Opening Balance",
               "Closing Balance", "Account Summary", "Visa Account", "Available Credit",
               "Account Statement", "Deposits and Withdrawals", "BMO Mastercard",
               "Credit Limit", "Chequing Account">>

RECURSIVE Pick(_, _, _)
\* the lines of ls at the indices in I that are >= i, in the order of ls
Pick(ls, I, i) ==
    IF i > Len(ls) THEN << >>
    ELSE (IF i \in I THEN <<ls[i]>> ELSE << >>) \o Pick(ls, I, i + 1)

\* the selections of at most n lines of ls
LinesOf(ls, n) == {Pick(ls, I, 1) : I \in {J \in SUBSET (1..Len(ls)) : Cardinality(J) <= n}}

\* first pages: at most two lines naming a bank, then at most MaxLines other lines
DetectPages == {b \o t : b \in LinesOf(BankLines, 2), t \in LinesOf(TypeLines, MaxLines)}

InitDetect ==
    /\ pc = "detect"
    /\ pdf \in {<<p>> : p \in DetectPages}
    /\ parser = None
    /\ page_no = 0
    /\ line_no = 0
    /\ data = << >>
    /\ current_date = None
    /\ statement_month = None
    /\ statement_year = 0
    /\ config_no = 0
    /\ region_no = 0
    /\ pdf_files = << >>
    /\ updated_count = 0
    /\ calls = 0
    /\ row = << >>
    /\ request = << >>
    /\ transactions = << >>
    /\ year_now = 0
    /\ IdleBalance
    /\ IdleCall

\* main.py:938-939
Detect ==
    /\ pc = "detect"
    /\ result' = detect_statement_format(pdf[1])
    /\ pc' = "detected"
    /\ UNCHANGED <<details, vendor_map>>
    /\ UNCHANGED balance_vars
    /\ UNCHANGED parse_vars

NextDetect == Detect

SpecDetect == InitDetect /\ [][NextDetect]_vars

\* the rule table: the banks in order, for each the tokens that name it and its
\* type rules in order; a rule holds when all tokens of one of its alternatives
\* occur in the text
RuleTable ==
    <<[bank |-> "TD", tokens |-> {"tdcanadatrust", "tdbank"},
       rules |-> <<[type |-> "Credit Card",
                    alternatives |-> {{"statementdate", "previousstatement"}}],
                   [type |-> "Chequing or Savings",
                    alternatives |-> {{"openingbalance", "closingbalance"}}]>>],
      [bank |-> "RBC", tokens |-> {"royalbankofcanada", "rbcroyalbank"},
       rules |-> <<[type |-> "Chequing or Savings",
                    alternatives |-> {{"accountsummary", "openingbalance"}}],
                   [type |-> "Credit Card", alternatives |-> {{"visaaccount"}}]>>],
      [bank |-> "CIBC", tokens |-> {"cibc"},
       rules |-> <<[type |-> "Credit Card",
                    alternatives |-> {{"accountsummary", "availablecredit"}}],
                   [type |-> "Chequing or Savings",
                    alternatives |-> {{"accountstatement"}, {"depositsandwithdrawals"}}]>>],
      [bank |-> "BMO", tokens |-> {"bankofmontreal", "bmo"},
       rules |-> <<[type |-> "Credit Card",
                    alternatives |-> {{"bmomastercard"}, {"creditlimit"}}],
                   [type |-> "Chequing or Savings",
                    alternatives |-> {{"accountsummary"}, {"chequingaccount"}}]>>]>>

\* the flattened text of the first page of the document
FlatFirstPage == RawText(pdf[1])

BanksNamed == {b \in 1..Len(RuleTable) :
                  \E t \in RuleTable[b].tokens : Contains(FlatFirstPage, t)}

RulesHolding(b) ==
    {r \in 1..Len(RuleTable[b].rules) :
        \E alt \in RuleTable[b].rules[r].alternatives :
            \A t \in alt : Contains(FlatFirstPage, t)}

\* C11: the bank is the first of TD, RBC, CIBC, BMO that the flattened text
\* names; the type is that of the first rule of that bank that holds, Unknown
\* Type when none holds; a text naming no bank gives Unknown Bank and Unknown Type.
C11_OrderedRuleTable ==
    pc = "detected" =>
        IF BanksNamed = {}
        THEN result = <<"Unknown Bank", "Unknown Type">>
        ELSE LET b == Leftmost(BanksNamed)
             IN  /\ result[1] = RuleTable[b].bank
                 /\ result[2] = IF RulesHolding(b) = {} THEN "Unknown Type"
                                ELSE RuleTable[b].rules[Leftmost(RulesHolding(b))].type

\* a text naming two banks, on which a type rule of the later bank holds and none
\* of the earlier bank
C11_Witness ==
    /\ pc = "detected"
    /\ Cardinality(BanksNamed) >= 2
    /\ RulesHolding(Leftmost(BanksNamed)) = {}
    /\ \E b \in BanksNamed : RulesHolding(b) # {}
    /\ result[2] = "Unknown Type"

(***************************************************************************)
(* The per-statement reconciliation table (main.py:1541-1576), under       *)
(* SpecDisplay.  pdf holds one stored statement (a PDFFile row), data its  *)
(* stored transactions in the order of get_all_transactions, result the    *)
(* row of the table.  An absent column value is << >>, a present one <<v>>.*)
(***************************************************************************)
StoredBanks == {None, "TD", "RBC"}

\* the bank and statement type the transactions of one statement carry
StoredLabels == {<<"TD", "Credit Card">>, <<"RBC", "Credit Card">>, <<"TD", "Chequing">>,
                 <<"CIBC", "Chequing">>, <<None, None>>}

StoredAmounts == {1, MaxCents}

StoredTransactions ==
    {[k \in 1..Len(ts) |-> [amount |-> ts[k][1], transaction_type |-> ts[k][2],
                            bank |-> l[1], statement_type |-> l[2]]] :
        ts \in SeqsUpTo(StoredAmounts \X {"Debit", "Credit"}, MaxLines),
        l \in StoredLabels}

InitDisplay ==
    /\ pc = "display"
    /\ pdf \in [bank : StoredBanks,
                opening_balance : {<< >>, <<1>>, <<MaxCents>>},
                closing_balance : {<< >>, <<MaxCents>>}]
    /\ data \in StoredTransactions
    /\ parser = None
    /\ page_no = 0
    /\ line_no = 0
    /\ current_date = None
    /\ statement_month = None
    /\ statement_year = 0
    /\ config_no = 0
    /\ region_no = 0
    /\ pdf_files = << >>
    /\ updated_count = 0
    /\ calls = 0
    /\ row = << >>
    /\ request = << >>
    /\ transactions = << >>
    /\ year_now = 0
    /\ IdleBalance
    /\ IdleCall

RECURSIVE TotalOf(_, _)
\* main.py:1551-1554: sum(t.amount for t in ts if t.transaction_type == type)
TotalOf(ts, type) ==
    IF ts = << >> THEN 0
    ELSE (IF ts[1].transaction_type = type THEN ts[1].amount ELSE 0)
         + TotalOf(Tail(ts), type)

\* pdf.opening_balance or 0
OrZero(v) == IF v = << >> THEN 0 ELSE v[1]

\* main.py:1557-1562
calculated_closing(bank, statement_type, opening, total_debits, total_credits) ==
    IF bank = "TD" /\ statement_type = "Credit Card"
    THEN opening + total_debits - total_credits
    ELSE opening - total_debits + total_credits

\* main.py:1543-1576, the row of one statement
StatementRow(statement, statement_transactions) ==
    LET has_trans == statement_transactions # << >>
        bank == IF statement.bank # None THEN statement.bank
                ELSE IF has_trans /\ statement_transactions[1].bank # None
                     THEN statement_transactions[1].bank
                ELSE IF has_trans THEN None ELSE "Unknown"
        statement_type == IF has_trans THEN statement_transactions[1].statement_type
                          ELSE "Unknown"
        total_debits == TotalOf(statement_transactions, "Debit")
        total_credits == TotalOf(statement_transactions, "Credit")
        calculated == calculated_closing(bank, statement_type,
                                         OrZero(statement.opening_balance),
                                         total_debits, total_credits)
    IN  [bank |-> bank, statement_type |-> statement_type,
         total_debits |-> total_debits, total_credits |-> total_credits,
         calculated_closing |-> calculated,
         difference |-> IF statement.closing_balance # << >>
                        THEN <<statement.closing_balance[1] - calculated>>
                        ELSE << >>]

Display ==
    /\ pc = "display"
    /\ result' = StatementRow(pdf, data)
    /\ pc' = "displayed"
    /\ UNCHANGED <<details, vendor_map>>
    /\ UNCHANGED balance_vars
    /\ UNCHANGED parse_vars

NextDisplay == Display

SpecDisplay == InitDisplay /\ [][NextDisplay]_vars

\* the statement type of the stored statement: that of its transactions
StoredType == IF data # << >> THEN data[1].statement_type ELSE "Unknown"

LastChqLine ==
    IF parser = "td_chequing" /\ pc = "chq_lines" /\ line_no >= 2
    THEN pdf[page_no][line_no - 1] ELSE ""

\* lines of the shape "Mon D  description  amount  runningbalance", with what
\* they print: the date, the description and the amount in cents
ColumnarLines ==
    {[line |-> "Jan 15 STARBUCKS COFFEE 4.50 4.50",
      month |-> "jan", day |-> 15, description |-> "STARBUCKS COFFEE", cents |-> 450],
     [line |-> "Jan 15 STARBUCKS COFFEE 4.50  4.50",
      month |-> "jan", day |-> 15, description |-> "STARBUCKS COFFEE", cents |-> 450],
     [line |-> "Jan 16  COSTCO WHOLESALE   120.33 124.83",
      month |-> "jan", day |-> 16, description |-> "COSTCO WHOLESALE", cents |-> 12033]}

\* C13: a date-prefixed line "Mon D  description  amount  runningbalance" gives
\* one record with the line's date, the description as details and the first of
\* the two numbers as amount, whatever the width of the whitespace between the
\* columns; the type is Credit by default.
C13_ColumnarLineGivesRecord ==
    \A c \in ColumnarLines :
        LastChqLine = c.line =>
            /\ data # << >>
            /\ data[Len(data)].details = c.description
            /\ data[Len(data)].amount = c.cents
            /\ data[Len(data)].date.month = c.month
            /\ data[Len(data)].date.day = c.day
            /\ data[Len(data)].transaction_type = "Credit"

\* credit-card and chequing lines whose amount has thousands separators, with
\* the value in cents of the amount with its commas deleted
GroupedAmountLines ==
    {<<"DEC28 DEC27 store -$1,234.56", 123456>>,
     <<"jan10 jan9 store $12,345,678.90", 1234567890>>,
     <<"Jan 17 PAYROLL 12,345,678.90 1,234.56", 1234567890>>}

\* C14: an amount with comma thousands separators and two decimals is stored
\* with exactly the value of its digits, by the credit-card and by the chequing
\* parser.
C14_ThousandsSeparators ==
    \A g \in GroupedAmountLines :
        (LastCCLine = g[1] \/ LastChqLine = g[1]) =>
            data # << >> /\ data[Len(data)].amount = g[2]

C14_Witness ==
    /\ LastChqLine = "Jan 17 PAYROLL 12,345,678.90 1,234.56"
    /\ data # << >>
    /\ data[Len(data)].details = "PAYROLL"
    /\ data[Len(data)].amount = 1234567890

\* all lines of the document being parsed
DocLines == {pdf[p][l] : <<p, l>> \in {q \in (DOMAIN pdf) \X (1..MaxLines + 8) :
                                          q[2] \in DOMAIN pdf[q[1]]}}

\* well-formed transaction lines of the two parsers, with their descriptions
GoodLines ==
    {<<"td_chequing", "Jan 15 STARBUCKS COFFEE 4.50 4.50", "STARBUCKS COFFEE">>,
     <<"td_chequing", "Jan 17 PAYROLL 12,345,678.90 1,234.56", "PAYROLL">>,
     <<"td_credit_card", "DEC28 DEC27 store $12.50", "store">>,
     <<"td_credit_card", "jan10 jan9 store $12,345,678.90", "store">>}

\* C15: a transaction line whose date cannot be parsed (an impossible calendar
\* date, or a chequing line met before any date) gives no record and does not
\* abort the document: no record is left without a date, and every well-formed
\* line of the document has its record when the parse has returned.
C15_BadLineNeverAborts ==
    (pc = "parsed" /\ parser \in {"td_chequing", "td_credit_card"}) =>
        /\ \A i \in 1..Len(data) : data[i].date # NaT
        /\ \A g \in GoodLines :
               (parser = g[1] /\ g[2] \in DocLines) =>
                   \E i \in 1..Len(data) : StartsAt(data[i].details, 1, g[3])

(***************************************************************************)
(* parse_pdf_transactions (main.py:929-973) as a whole, under SpecDispatch: *)
(* the OCR balances, the detection of the format, the parser the document  *)
(* is sent to and the selection of the returned balances.  A page is the   *)
(* sequence of its text lines; OCR reads the same lines.                   *)
(***************************************************************************)
\* first lines of a first page, by the format detect_statement_format gives them
DispatchLabels ==
    {<<"TD Canada Trust", "Statement Date: Jan 5, 2025",
       "PREVIOUS STATEMENT BALANCE $1,234.56", "NEW BALANCE: $0.03">>,
     <<"TD Canada Trust", "Opening Balance 1,000.00", "Closing Balance $1,234.56">>,
     <<"CIBC Account Statement", "Opening Balance 1,000.00">>,
     <<"RBC Royal Bank", "Visa Account">>,
     <<"TD Canada Trust">>,
     << >>}

DispatchBodyLines ==
    {"DEC28 DEC27 store $12.50",
     "Jan 15 STARBUCKS COFFEE 4.50 4.50",
     "01/15/2025 STORE $12.50"}

\* one-page documents, and the document without pages
DispatchDocs ==
    {<<l \o b>> : l \in DispatchLabels, b \in SeqsUpTo(DispatchBodyLines, 1)}
    \cup {<< >>}

InitDispatch ==
    /\ pc = "start"
    /\ pdf \in DispatchDocs
    /\ year_now \in YearsNow
    /\ parser = None
    /\ page_no = 1
    /\ line_no = 1
    /\ data = << >>
    /\ current_date = None
    /\ statement_month = None
    /\ statement_year = 0
    /\ config_no = 0
    /\ region_no = 0
    /\ pdf_files = << >>
    /\ updated_count = 0
    /\ calls = 0
    /\ row = << >>
    /\ request = << >>
    /\ transactions = << >>
    /\ IdleBalance
    /\ IdleCall

\* main.py:933: ocr_extract_balances returns what OCR reads on the page images
ExtractOcrBalances ==
    /\ pc = "start"
    /\ ocr_opening_balance' \in OcrBalances
    /\ ocr_closing_balance' \in OcrBalances
    /\ pc' = "dispatch"
    /\ UNCHANGED <<reg_opening_balance, reg_closing_balance, opening_balance,
                   closing_balance, warnings>>
    /\ UNCHANGED call_vars
    /\ UNCHANGED parse_vars

\* main.py:942-949
parser_for(bank_name, statement_type) ==
    IF bank_name = "TD" /\ statement_type = "Credit Card" THEN "td_credit_card"
    ELSE IF bank_name = "CIBC" /\ statement_type = "Chequing or Savings" THEN "td_chequing"
    ELSE "advanced_ocr"

\* main.py:970-973
ReturnEmpty ==
    /\ pc' = "returned"
    /\ data' = << >>
    /\ opening_balance' = 0
    /\ closing_balance' = 0
    /\ UNCHANGED <<parser, result>>

\* main.py:937-949.  pdf.pages[0] raises on a document without pages; on a
\* page without text extract_text gives "" or None with the library's version,
\* and detect_statement_format raises on None.
Dispatch ==
    /\ pc = "dispatch"
    /\ IF pdf = << >>
       THEN ReturnEmpty
       ELSE \/ /\ result' = detect_statement_format(pdf[1])
               /\ parser' = parser_for(result'[1], result'[2])
               /\ pc' = "open"
               /\ UNCHANGED <<data, opening_balance, closing_balance>>
            \/ /\ pdf[1] = << >>
               /\ ReturnEmpty
    /\ UNCHANGED <<ocr_opening_balance, ocr_closing_balance, reg_opening_balance,
                   reg_closing_balance, warnings>>
    /\ UNCHANGED <<details, vendor_map>>
    /\ UNCHANGED <<pdf, page_no, line_no, current_date, statement_month,
                   statement_year, year_now, config_no, region_no, pdf_files,
                   updated_count, calls, row,
                   request, transactions>>

\* main.py:951-968: the parser has returned
ReturnSelected ==
    /\ pc = "parsed"
    /\ opening_balance' =
           select_most_reliable_balance(ocr_opening_balance, reg_opening_balance)
    /\ closing_balance' =
           select_most_reliable_balance(ocr_closing_balance, reg_closing_balance)
    /\ warnings' =
           discrepancy_warning("opening", opening_balance', ocr_opening_balance,
                               reg_opening_balance)
           \o discrepancy_warning("closing", closing_balance', ocr_closing_balance,
                                  reg_closing_balance)
    /\ pc' = "returned"
    /\ UNCHANGED <<ocr_opening_balance, ocr_closing_balance, reg_opening_balance,
                   reg_closing_balance>>
    /\ UNCHANGED call_vars
    /\ UNCHANGED parse_vars

NextDispatch ==
    \/ ExtractOcrBalances
    \/ Dispatch
    \/ NextParse
    \/ ReturnSelected

SpecDispatch == InitDispatch /\ [][NextDispatch]_vars

\* C16: whenever parse_pdf_transactions returns an empty transaction list, both
\* returned balances are 0.
C16_EmptyResultZeroBalances ==
    (pc = "returned" /\ data = << >>) => (opening_balance = 0 /\ closing_balance = 0)

\* C17: a document goes to the OCR fallback only when its detected bank or type
\* is Unknown; a TD credit card goes to the credit-card parser and a TD or CIBC
\* chequing or savings statement goes to the columnar chequing parser.
C17_Dispatch ==
    parser # None =>
        /\ parser = "advanced_ocr" =>
               (result[1] = "Unknown Bank" \/ result[2] = "Unknown Type")
        /\ (result[1] = "TD" /\ result[2] = "Credit Card") => parser = "td_credit_card"
        /\ (result[1] \in {"TD", "CIBC"} /\ result[2] = "Chequing or Savings") =>
               parser = "td_chequing"

(***************************************************************************)
(* ocr_extract_balances (main.py:796-926), under SpecOcrBalances.          *)
(*                                                                         *)
(* A page image is the sequence of the bounding boxes <<w, h>> of its      *)
(* contours.  What Tesseract reads in one attempt is an input: a text of   *)
(* lines drawn from OcrTexts.  data is the list of the OCR attempts made,  *)
(* region 0 for the full page.                                             *)
(***************************************************************************)
\* main.py:829-834
configs == <<"--psm 6 -c tessedit_char_whitelist=0123456789,.$", "--psm 6", "--psm 3",
             "--psm 11">>

\* main.py:846-849 and 860-863
full_opening_patterns == {"opening balance", "previous balance", "beginning balance",
                          "balance forward", "previous statement"}
full_closing_patterns == {"closing balance", "new balance", "ending balance",
                          "current balance", "balance due", "statement balance"}
\* main.py:892-894 and 905-907
region_opening_patterns == {"opening", "previous", "beginning", "forward"}
region_closing_patterns == {"closing", "new", "ending", "due"}

\* re.findall(r'\$?\s*([\d,]+\.\d{2})', line)[0] as float(...replace(',', '')), in
\* cents: <<value>>, or << >> when nothing matches
FirstAmount(line) ==
    LET I == {i \in 1..Len(line) : AmountEnd(line, i) > 0}
    IN  IF I = {} THEN << >>
        ELSE <<AmountCents(SubSeq(line, Leftmost(I), AmountEnd(line, Leftmost(I))))>>

\* the mutant of SaneBalance: the upper limit of the sanity check is dropped
SaneBalance_no_limit(m) == m # << >> /\ 0 < m[1]

\* main.py:851-854: a match that passes 0 < potential_balance < 1000000
SaneBalance(m) == m # << >> /\ 0 < m[1] /\ m[1] < 100000000

\* what the line loops test on one lowercased line: the anchor phrases it holds
\* and the first amount in it
ReadLine(line) ==
    [full_opening |-> \E p \in full_opening_patterns : Contains(line, p),
     full_closing |-> \E p \in full_closing_patterns : Contains(line, p),
     region_opening |-> \E p \in region_opening_patterns : Contains(line, p),
     region_closing |-> \E p \in region_closing_patterns : Contains(line, p),
     amount |-> FirstAmount(line)]

\* lines Tesseract may read
OcrBalanceLines ==
    {"Opening Balance $0.01",
     "Previous $1,234.56",
     "NEW BALANCE 0.02",
     "Amount Due: $ 3.00",
     "Opening Balance $1,000,000.00",
     "Closing Balance $0.00",
     "Balance Forward 5.00 New Balance 7.00",
     "Ending Balance $999,999.99"}

\* main.py:843 and 888: text.lower() of every line that may be read
OcrReads == [line \in OcrBalanceLines |-> ReadLine(Lower(line))]

\* one balance after one line: main.py:846-857 (guarded = FALSE) and
\* main.py:892-903 (guarded = TRUE, only a balance still 0 is set)
BalanceAfter(balance, anchored, amount, guarded) ==
    IF (~guarded \/ balance = 0) /\ anchored /\ SaneBalance(amount)
    THEN amount[1]
    ELSE balance

\* both balances after one line
ScanLine(read, o, c, guarded) ==
    <<BalanceAfter(o, IF guarded THEN read.region_opening ELSE read.full_opening,
                   read.amount, guarded),
      BalanceAfter(c, IF guarded THEN read.region_closing ELSE read.full_closing,
                   read.amount, guarded)>>

RECURSIVE ScanLines(_, _, _, _)
\* the loop over the lines of one OCR text: <<opening, closing>> after it
ScanLines(lines, i, found, guarded) ==
    IF i > Len(lines) THEN found
    ELSE ScanLines(lines, i + 1, ScanLine(OcrReads[lines[i]], found[1], found[2], guarded),
                   guarded)

\* main.py:710-729
find_balance_regions(image) ==
    SelectSeq(image, LAMBDA box : 100 < box[1] /\ box[1] < 500 /\ 20 < box[2] /\ box[2] < 100)

\* main.py:821: the images of the first two pages
images == SubSeq(pdf, 1, IF Len(pdf) < 2 THEN Len(pdf) ELSE 2)

\* page images: no contour, the box of a balance line, one too narrow before it,
\* one too high
PageImages == {<< >>, <<<<300, 50>>>>, <<<<100, 50>>, <<300, 50>>>>, <<<<300, 100>>>>}

ImageDocs == UNION {[1..n -> PageImages] : n \in 0..3}

OcrTexts == SeqsUpTo(OcrBalanceLines, 2)

InitOcrBalances ==
    /\ pc = "ocr_start"
    /\ pdf \in ImageDocs
    /\ parser = None
    /\ page_no = 0
    /\ line_no = 0
    /\ data = << >>
    /\ current_date = None
    /\ statement_month = None
    /\ statement_year = 0
    /\ config_no = 0
    /\ region_no = 0
    /\ pdf_files = << >>
    /\ updated_count = 0
    /\ calls = 0
    /\ row = << >>
    /\ request = << >>
    /\ transactions = << >>
    /\ year_now = 0
    /\ IdleBalance
    /\ IdleCall

ocr_frame ==
    /\ UNCHANGED <<ocr_opening_balance, ocr_closing_balance, reg_opening_balance,
                   reg_closing_balance, warnings>>
    /\ UNCHANGED call_vars
    /\ UNCHANGED <<pdf, parser, line_no, current_date, statement_month, statement_year,
                   year_now, pdf_files, updated_count, calls, row,
                   request, transactions>>

\* main.py:798-825: Tesseract or poppler missing, or no image, returns (0.0, 0.0)
OcrBalancesStart ==
    /\ pc = "ocr_start"
    /\ \/ /\ images # << >>
          /\ pc' = "ocr_full"
          /\ page_no' = 1
          /\ config_no' = 1
       \/ /\ pc' = "ocr_returned"
          /\ UNCHANGED <<page_no, config_no>>
    /\ UNCHANGED <<opening_balance, closing_balance, data, region_no>>
    /\ ocr_frame

\* main.py:836-880: the full-page attempt of one configuration
FullPageAttempt ==
    /\ pc = "ocr_full"
    /\ \E text \in OcrTexts :
          LET found == ScanLines(text, 1, <<opening_balance, closing_balance>>, FALSE)
          IN  /\ opening_balance' = found[1]
              /\ closing_balance' = found[2]
              /\ pc' = IF found[1] > 0 /\ found[2] > 0 THEN "ocr_returned"
                       ELSE "ocr_regions"
    /\ data' = Append(data, [page_num |-> page_no, config |-> configs[config_no],
                             region |-> 0])
    /\ region_no' = 1
    /\ UNCHANGED <<page_no, config_no>>
    /\ ocr_frame

\* main.py:881-916: the attempt on one balance region
RegionAttempt ==
    /\ pc = "ocr_regions"
    /\ region_no <= Len(find_balance_regions(images[page_no]))
    /\ \E text \in OcrTexts :
          LET found == ScanLines(text, 1, <<opening_balance, closing_balance>>, TRUE)
          IN  /\ opening_balance' = found[1]
              /\ closing_balance' = found[2]
    /\ data' = Append(data, [page_num |-> page_no, config |-> configs[config_no],
                             region |-> region_no])
    /\ region_no' = region_no + 1
    /\ UNCHANGED <<pc, page_no, config_no>>
    /\ ocr_frame

\* main.py:827, 836, 918-926: the next configuration, the next page, or the return
NextAttempt ==
    /\ pc = "ocr_regions"
    /\ region_no > Len(find_balance_regions(images[page_no]))
    /\ IF config_no < Len(configs)
       THEN /\ config_no' = config_no + 1
            /\ pc' = "ocr_full"
            /\ UNCHANGED page_no
       ELSE IF page_no < Len(images)
       THEN /\ page_no' = page_no + 1
            /\ config_no' = 1
            /\ pc' = "ocr_full"
       ELSE /\ pc' = "ocr_returned"
            /\ UNCHANGED <<page_no, config_no>>
    /\ UNCHANGED <<opening_balance, closing_balance, data, region_no>>
    /\ ocr_frame

\* main.py:922-926: an exception of an OCR call ends the extraction
OcrRaise ==
    /\ pc \in {"ocr_full", "ocr_regions"}
    /\ pc' = "ocr_returned"
    /\ UNCHANGED <<opening_balance, closing_balance, data, page_no, config_no, region_no>>
    /\ ocr_frame

NextOcrBalances ==
    \/ OcrBalancesStart
    \/ FullPageAttempt
    \/ RegionAttempt
    \/ NextAttempt
    \/ OcrRaise

SpecOcrBalances == InitOcrBalances /\ [][NextOcrBalances]_vars

\* the fair run of ocr_extract_balances: the loops are sequential code, a step
\* that can be taken is taken
SpecOcrBalancesFair == SpecOcrBalances /\ WF_vars(NextOcrBalances)

\* the full-page OCR attempts made so far
FullPageAttempts == Cardinality({i \in 1..Len(data) : data[i].region = 0})

BoundedAndSane ==
    /\ Len(images) <= 2
    /\ FullPageAttempts <= Len(images) * Len(configs)
    /\ FullPageAttempts <= 2 * 4
    /\ pc = "ocr_returned" =>
           /\ opening_balance = 0 \/ (0 < opening_balance /\ opening_balance < 100000000)
           /\ closing_balance = 0 \/ (0 < closing_balance /\ closing_balance < 100000000)

\* C18: ocr_extract_balances always terminates; it makes at most (pages checked)
\* x (OCR configurations) full-page attempts, at most 2 pages and 4
\* configurations, and returns balances that are each 0 or strictly between 0
\* and 1,000,000.
C18_TerminatesBoundedSane == []BoundedAndSane /\ <>(pc = "ocr_returned")

C18_Witness ==
    /\ pc = "ocr_returned"
    /\ FullPageAttempts = 8
    /\ opening_balance = 0
    /\ closing_balance = 99999999

\* C19: once both balances have been found no further OCR attempt is made and
\* the pair is returned as found; a balance already found is never overwritten.
C19_ShortCircuit ==
    [][/\ (opening_balance > 0 /\ closing_balance > 0) =>
              (data' = data /\ opening_balance' = opening_balance
                            /\ closing_balance' = closing_balance)
       /\ opening_balance > 0 => opening_balance' = opening_balance
       /\ closing_balance > 0 => closing_balance' = closing_balance]_vars

(***************************************************************************)
(* Word matching of main.py's categorizer, under SpecCat.                  *)
(***************************************************************************)
\* the details with digits and punctuation removed (main.py:1007-1010)
MainText(d) == CollapseSpaces(PunctToSpace(RemoveDigits(Normalized(d))))

\* a key that is a substring of the details, or whose words are all among the
\* words of the details
SubsetMatch(key, d) ==
    \/ Contains(Normalized(d), Normalized(key))
    \/ Contains(MainText(d), Normalized(key))
    \/ Range(Split(Normalized(key))) \subseteq Range(Split(Normalized(d)))

\* C20: main.py's categorizer returns the category of a key only if the key is
\* a substring of the details or every word of the key is among the words of
\* the details; a key sharing only some of its words does not match.
C20_WordSubsetMatch ==
    (ReturnedBy("main") /\ result.category # Uncategorized) =>
        \E i \in RealIdx(vendor_map) :
            /\ vendor_map[i].category = result.category
            /\ SubsetMatch(vendor_map[i].key, details)

(***************************************************************************)
(* Normalization in api.py's categorizer, under SpecCat.                   *)
(***************************************************************************)
\* C21: api.py's categorizer returns for a details string what it returns for
\* the same string lowercased with every run of whitespace replaced by one
\* space.
C21_NormalizationInvariantApi ==
    ReturnedBy("api") =>
        result.category = api_categorize_transaction(Normalized(details), vendor_map)

\* lines holding several amount pairs, with the date they carry and, for each
\* pair, the fragment before it and its first number in cents
MultiPairLines ==
    {[line |-> "Dec 31 RETAIL PURCHASE 1,234.56 2,000.00 REFUND 5.00 1,995.00",
      month |-> "dec", day |-> 31,
      pairs |-> <<<<"RETAIL PURCHASE", 123456>>, <<"REFUND", 500>>>>],
     [line |-> "Jan 18 ATM 20.00 80.00 FEE 1.50 78.50 THANK YOU",
      month |-> "jan", day |-> 18,
      pairs |-> <<<<"ATM", 2000>>, <<"FEE", 150>>>>],
     [line |-> "Jan 17 PAYROLL 12,345,678.90 1,234.56",
      month |-> "jan", day |-> 17,
      pairs |-> <<<<"PAYROLL", 1234567890>>>>]}

\* the records the line just processed has added, given how many it should add
Emitted(k) == SubSeq(data, Len(data) - k + 1, Len(data))

\* C22: a chequing line holding k amount pairs emits k records, left to right,
\* all with the line's date: record i has the first number of pair i as amount
\* and the fragment before pair i as details; the fragment after the last pair
\* is dropped.
C22_OneRecordPerPair ==
    \A m \in MultiPairLines :
        LastChqLine = m.line =>
            /\ Len(data) >= Len(m.pairs)
            /\ \A i \in 1..Len(m.pairs) :
                   /\ Emitted(Len(m.pairs))[i].details = m.pairs[i][1]
                   /\ Emitted(Len(m.pairs))[i].amount = m.pairs[i][2]
                   /\ Emitted(Len(m.pairs))[i].date =
                          [year |-> statement_year, month |-> m.month, day |-> m.day]
            /\ \A i \in 1..Len(data) : ~Contains(data[i].details, "THANK YOU")

C22_Witness ==
    /\ LastChqLine = "Jan 18 ATM 20.00 80.00 FEE 1.50 78.50 THANK YOU"
    /\ Len(data) = 2
    /\ data[1].details = "ATM" /\ data[1].amount = 2000
    /\ data[2].details = "FEE" /\ data[2].amount = 150

(***************************************************************************)
(* Continuation lines in the two text parsers, under SpecParse.            *)
(***************************************************************************)
\* the line the parser reads in its next step, "" when it reads none
NextLine ==
    IF parser = "td_credit_card" /\ pc = "cc_lines" /\ line_no <= Len(Flatten(pdf))
    THEN Flatten(pdf)[line_no]
    ELSE IF parser = "td_chequing" /\ pc = "chq_lines" /\ line_no <= Len(pdf[page_no])
    THEN pdf[page_no][line_no]
    ELSE ""

\* lines that are neither transaction lines, balance markers nor date-prefixed
ContinuationLines == {"TORONTO ON", "toronto on"}

\* what a step does to the records when the line it reads is a continuation line
ExtendsLastOnly ==
    NextLine \in ContinuationLines =>
        IF data = << >> THEN data' = << >>
        ELSE /\ Len(data') = Len(data)
             /\ \A i \in 1..(Len(data) - 1) : data'[i] = data[i]
             /\ data'[Len(data)].details = data[Len(data)].details \o " " \o NextLine
             /\ \A f \in (DOMAIN data[Len(data)]) \ {"details"} :
                    data'[Len(data)][f] = data[Len(data)][f]

C24_TypeMatchesReturnedDetails ==
    (parser = "td_chequing" /\ pc = "parsed") =>
        \A i \in 1..Len(data) :
            data[i].transaction_type = classify_transaction_type(data[i].details)

\* the date-prefixed lines of the current page before the line just processed
DatedBefore ==
    {k \in 1..(line_no - 2) : DateMatch(Strip(pdf[page_no][k])).ok}

\* a transaction line without a date of its own
UndatedLines == {"BILL PAYMENT 20.00 104.83"}

\* C25: a record's date is that of the most recent date-prefixed line before its
\* transaction line on the same page, with the statement year; a date of a
\* previous page is never used.
C25_DateWithinPage ==
    (LastChqLine \in UndatedLines /\ data # << >>) =>
        /\ DatedBefore # {}
        /\ data[Len(data)].date =
               ChqDate(DateMatch(Strip(pdf[page_no][
                           CHOOSE k \in DatedBefore : \A j \in DatedBefore : j <= k])).date,
                       statement_year)

(***************************************************************************)
(* Properties of the credit-card parser, under SpecParse.                  *)
(***************************************************************************)
\* lines of the shape "postMonth postDay transMonth transDay description
\* [-]$amount", with the description and the magnitude of the amount in cents
CardLines ==
    {<<"DEC28 DEC27 store $12.50", "store", 1250>>,
     <<"DEC28 DEC27 store -$1,234.56", "store", 123456>>,
     <<"jan10 jan9 store $12,345,678.90", "store", 1234567890>>,
     <<"dec1 dec1 balance transfer $20.00", "balance transfer", 2000>>}

\* what a step does when the line it reads is one of CardLines
OneRecordMore ==
    \A c \in CardLines :
        (parser = "td_credit_card" /\ NextLine = c[1]) =>
            /\ Len(data') = Len(data) + 1
            /\ SubSeq(data', 1, Len(data)) = data
            /\ data'[Len(data')].details = c[2]
            /\ data'[Len(data')].amount = c[3]

\* C26: every credit-card transaction line yields exactly one record, whatever
\* words its description contains; none is skipped or merged into another
\* record's details.
C26_NoTransactionLost == [][OneRecordMore]_vars

(***************************************************************************)
(* recategorize_all_transactions (main.py:1131-1165, models.py:428-470)    *)
(* and the category change of the transaction editor (main.py:1745-1777),  *)
(* under SpecRecat.  data is the transactions table, vendor_map the vendor *)
(* mappings table in insertion order.  The database accepts every write.   *)
(***************************************************************************)
MaxCalls == 2

StoredDetails == {"costco gas", "Shell Gas"}
StoredCategories == Categories \cup {Uncategorized}

\* the transactions table: one or two rows
StoredRows ==
    {t \in SeqsUpTo([details : StoredDetails, category : StoredCategories], 2) : t # << >>}

\* the vendor mappings table: vendor_substring is unique (models.py:81)
StoredMappings ==
    {vm \in SeqsUpTo([key : {"costco", "costco gas", "gas station"}, is_str : {TRUE},
                      category : Categories], 2) :
        \A i, j \in DOMAIN vm : vm[i].key = vm[j].key => i = j}

InitRecat ==
    /\ pc = "idle"
    /\ data \in StoredRows
    /\ vendor_map \in StoredMappings
    /\ details = ""
    /\ result = None
    /\ pdf = << >>
    /\ parser = None
    /\ page_no = 0
    /\ line_no = 0
    /\ current_date = None
    /\ statement_month = None
    /\ statement_year = 0
    /\ year_now = 0
    /\ config_no = 0
    /\ region_no = 0
    /\ pdf_files = << >>
    /\ updated_count = 0
    /\ calls = 0
    /\ row = << >>
    /\ request = << >>
    /\ transactions = << >>
    /\ IdleBalance

recat_frame ==
    /\ UNCHANGED balance_vars
    /\ UNCHANGED <<details, pdf, parser, page_no, current_date, statement_month,
                   statement_year, year_now, config_no, region_no, pdf_files,
                   request, transactions>>

\* main.py:1133-1141
RecategorizeStart ==
    /\ pc = "idle" /\ calls < MaxCalls
    /\ pc' = "recategorize"
    /\ line_no' = 1
    /\ updated_count' = 0
    /\ UNCHANGED <<data, vendor_map, result, calls, row>>
    /\ recat_frame

\* the mutant of new_category: a transaction that has a category keeps it
new_category_keep(trans, vm) ==
    IF trans.category # Uncategorized THEN trans.category
    ELSE categorize_transaction(trans.details, vm)

\* main.py:1145-1146
new_category(trans, vm) == categorize_transaction(trans.details, vm)

\* main.py:1143-1156, one transaction
RecategorizeStep ==
    /\ pc = "recategorize" /\ line_no <= Len(data)
    /\ IF new_category(data[line_no], vendor_map) # data[line_no].category
       THEN /\ data' = [data EXCEPT ![line_no].category =
                                        new_category(data[line_no], vendor_map)]
            /\ updated_count' = updated_count + 1
       ELSE UNCHANGED <<data, updated_count>>
    /\ line_no' = line_no + 1
    /\ UNCHANGED <<pc, vendor_map, result, calls, row>>
    /\ recat_frame

\* main.py:1157-1160
RecategorizeReturn ==
    /\ pc = "recategorize" /\ line_no > Len(data)
    /\ result' = updated_count
    /\ calls' = calls + 1
    /\ pc' = "idle"
    /\ UNCHANGED <<data, vendor_map, line_no, updated_count, row>>
    /\ recat_frame

\* models.py:262-282: the mapping of the key is updated in place, a new key is
\* added after the others
save_vendor_mapping(vm, vendor_substring, category) ==
    IF \E i \in DOMAIN vm : vm[i].key = vendor_substring
    THEN [i \in DOMAIN vm |->
              IF vm[i].key = vendor_substring THEN [vm[i] EXCEPT !.category = category]
              ELSE vm[i]]
    ELSE Append(vm, [key |-> vendor_substring, is_str |-> TRUE, category |-> category])

\* main.py:1757-1763: the user gives one row another category in the editor
EditCategory ==
    /\ pc = "idle" /\ row = << >>
    /\ \E i \in DOMAIN data, c \in StoredCategories :
          /\ c # data[i].category
          /\ row' = [transaction_id |-> i, details |-> data[i].details, category |-> c]
          /\ data' = [data EXCEPT ![i].category = c]
          /\ vendor_map' = save_vendor_mapping(vendor_map, Lower(data[i].details), c)
    /\ calls' = 0
    /\ UNCHANGED <<pc, result, line_no, updated_count>>
    /\ recat_frame

NextRecat ==
    \/ RecategorizeStart
    \/ RecategorizeStep
    \/ RecategorizeReturn
    \/ EditCategory

SpecRecat == InitRecat /\ [][NextRecat]_vars

\* every stored category is the one the categorizer gives with the mappings
AllRecategorized ==
    \A i \in DOMAIN data :
        data[i].category = categorize_transaction(data[i].details, vendor_map)

\* after a call: the categories are recomputed, and a call that follows another
\* with nothing changed between them returned 0
AfterReturn ==
    (pc = "idle" /\ calls >= 1) =>
        /\ AllRecategorized
        /\ result = updated_count
        /\ calls >= 2 => result = 0

\* a step of the loop counts the transaction exactly when its category changes,
\* and a call that follows another changes no transaction
CountsChanges ==
    /\ (pc = "recategorize" /\ line_no' = line_no + 1) =>
           updated_count' - updated_count =
               IF data'[line_no].category # data[line_no].category THEN 1 ELSE 0
    /\ (pc = "idle" /\ pc' = "recategorize") => updated_count' = 0
    /\ (calls >= 1 /\ row' = row) => data' = data

\* C27: after recategorize_all_transactions returns every stored category equals
\* categorize_transaction(details, mappings); it returns the number of
\* transactions whose category changed; a second call with nothing changed
\* changes nothing and returns 0.
C27_RecategorizeRecomputes == []AfterReturn /\ [][CountsChanges]_vars

C27_Witness ==
    /\ pc = "idle"
    /\ calls = 1
    /\ result = 2
    /\ row = << >>
    /\ AllRecategorized

\* C30: after the user has changed a transaction's category in the editor, a
\* later run of recategorize_all_transactions leaves the transaction with the
\* category the user gave it.
C30_CorrectionSurvives ==
    (row # << >> /\ calls >= 1 /\ pc = "idle") =>
        data[row.transaction_id].category = row.category

(***************************************************************************)
(* The endpoints upload_statement and switch_transaction_type of           *)
(* api_server (api_server.py:91-141, 159-182), under SpecServer.  data is  *)
(* the transactions table (a row's id is its index), pdf_files the         *)
(* pdf_files table, vendor_map the vendor mappings table; result is the    *)
(* status code of the last response, 0 while a request is being answered.  *)
(***************************************************************************)
RECURSIVE CCLines(_, _, _, _)
\* main.py:339-392, the loop over the lines
CCLines(recs, lines, st_month, st_year) ==
    IF lines = << >> THEN recs
    ELSE CCLines(CCLineStep(recs, lines[1], st_month, st_year), Tail(lines),
                 st_month, st_year)

\* main.py:286-398, the transactions returned
parse_td_credit_card_statement(content, y_now) ==
    LET statement_match == StatementDate(RawText(Flatten(content)))
    IN  CCLines(<< >>, Flatten(content),
                IF statement_match # << >> THEN statement_match[1].month ELSE "jan",
                IF statement_match # << >> THEN statement_match[1].year ELSE y_now)

RECURSIVE ChqLines(_, _, _, _)
\* main.py:451-527, the loops over the pages and their lines; current_date is
\* kept from page to page
ChqLines(st, lines, y, bank) ==
    IF lines = << >> \/ st.raised THEN st
    ELSE ChqLines(ChqLineStep([data |-> st.data, current_date |-> st.current_date,
                               closing_balance |-> st.closing_balance],
                              lines[1], y, bank),
                  Tail(lines), y, bank)

\* main.py:434-537, the transactions returned
parse_td_chequing_statement(content, y_now) ==
    ChqLines([data |-> << >>, current_date |-> None, closing_balance |-> 0,
              raised |-> FALSE],
             Flatten(content), ChqStatementYear(content[1], y_now),
             detect_statement_format(content[1])[1]).data

RECURSIVE OcrPages(_, _)
\* main.py:619-650, the loop over the pages
OcrPages(st, pages) ==
    IF pages = << >> \/ st.raised THEN st
    ELSE OcrPages(IF pages[1] = << >> THEN st
                  ELSE OcrClusters(st, cluster_transactions(RegionLines(pages[1]))),
                  Tail(pages))

\* main.py:609-656, the transactions returned
advanced_ocr_extract(content) == OcrPages([data |-> << >>, raised |-> FALSE], content).data

\* main.py:929-973, the transactions returned; pdf.pages[0] raises on a
\* document without pages and the function returns no transaction
parse_pdf_transactions(content, y_now) ==
    IF content = << >> THEN << >>
    ELSE LET format == detect_statement_format(content[1])
             chosen == parser_for(format[1], format[2])
         IN  CASE chosen = "td_credit_card" -> parse_td_credit_card_statement(content, y_now)
               [] chosen = "td_chequing" -> parse_td_chequing_statement(content, y_now)
               [] OTHER -> advanced_ocr_extract(content)

\* datetime.now().strftime("%b")
month_now == "Nov"

\* main.py:129-142: <<month, year>> for the text month + "_" + year
get_month_year_from_pdf(content, y_now) ==
    LET lines == Flatten(content)
        I == {i \in DOMAIN lines : DateMatch(lines[i]).ok}
    IN  IF I = {} THEN <<month_now, y_now>>
        ELSE <<SubSeq(lines[MinOf(I)], 1, 3), y_now>>

\* main.py:107-110
check_existing_statement(files, filename, month_year) ==
    \E i \in DOMAIN files :
        files[i].original_filename = filename /\ files[i].month_year = month_year

\* api_server.py:98: file.filename.endswith('.pdf')
IsPdfName(filename) ==
    Len(filename) >= 4 /\ SubSeq(filename, Len(filename) - 3, Len(filename)) = ".pdf"

\* main.py:1030-1041 with the mappings table not empty (models.py:375-381)
auto_categorize_transactions(vm, ts) ==
    [i \in DOMAIN ts |-> [ts[i] EXCEPT !.category = categorize_transaction(ts[i].details, vm)]]

\* models.py:243-246: SQLite's DateTime column binds a date by its year, month
\* and day, which NaT does not have, so the commit of a row dated NaT raises
save_transaction_commits(trans) == trans.date # NaT

\* api_server.py:127-128, models.py:243: the row of a transaction of a stored file
StoredTransaction(trans, pdf_file_id) ==
    [f \in DOMAIN trans \cup {"pdf_file_id"} |->
        IF f = "pdf_file_id" THEN pdf_file_id ELSE trans[f]]

\* api_server.py:139-141: except Exception catches the HTTPException raised in
\* the try block as well as any other exception (status_code 0 here) and raises
\* HTTPException(status_code=500)
upload_except(status_code) == 500

\* api_server.py:180-182
switch_except(status_code) == 500

UploadPages ==
    {<< >>,
     <<<<"TD Canada Trust", "Statement Date: Jan 5, 2025",
         "PREVIOUS STATEMENT BALANCE $1,234.56", "NEW BALANCE: $0.03">>>>,
     <<<<"TD Canada Trust", "Statement Date: Jan 5, 2025",
         "PREVIOUS STATEMENT BALANCE $1,234.56", "NEW BALANCE: $0.03",
         "DEC28 DEC27 store $12.50">>>>,
     <<<<"TD Canada Trust", "Statement Date: Jan 5, 2025",
         "PREVIOUS STATEMENT BALANCE $1,234.56", "NEW BALANCE: $0.03",
         "DEC28 DEC27 store $12.50", "FEB30 FEB28 REFUND -$10.00">>>>,
     <<<<"CIBC Account Statement", "Opening Balance 1,000.00">>,
       <<"Jan 15 STARBUCKS COFFEE 4.50 4.50", "Jan 16 BILL PAYMENT 20.00 104.83">>>>}

UploadNames == {"jan.pdf", "notes.txt", "JAN.PDF"}

\* the transactions and the month of each document, by the year of the upload
UploadParsed ==
    [c \in UploadPages, y \in YearsNow |-> parse_pdf_transactions(c, y)]
UploadMonthYear ==
    [c \in UploadPages, y \in YearsNow |-> get_month_year_from_pdf(c, y)]

ServerMappings ==
    {<<[key |-> "store", is_str |-> TRUE, category |-> "Groceries"]>>,
     <<[key |-> "starbucks", is_str |-> TRUE, category |-> "Fuel"]>>}

InitServer ==
    /\ pc = "idle"
    /\ data = << >>
    /\ pdf_files = << >>
    /\ vendor_map \in ServerMappings
    /\ year_now \in YearsNow
    /\ request = [endpoint |-> None]
    /\ transactions = << >>
    /\ result = 0
    /\ line_no = 0
    /\ details = ""
    /\ pdf = << >>
    /\ parser = None
    /\ page_no = 0
    /\ current_date = None
    /\ statement_month = None
    /\ statement_year = 0
    /\ config_no = 0
    /\ region_no = 0
    /\ updated_count = 0
    /\ calls = 0
    /\ row = << >>
    /\ IdleBalance

server_frame ==
    /\ UNCHANGED balance_vars
    /\ UNCHANGED <<details, vendor_map, pdf, parser, page_no, current_date,
                   statement_month, statement_year, year_now, config_no, region_no,
                   updated_count, calls, row>>

\* the response of a request that raised
Respond(status_code) ==
    /\ result' = status_code
    /\ pc' = "idle"

\* api_server.py:97-125, 135-141: the checks, the parse, save_pdf_file
\* (models.py:194-207: the row is committed) and auto_categorize_transactions
UploadStatement ==
    /\ pc = "idle"
    /\ \E filename \in UploadNames, content \in UploadPages :
          /\ request' = [endpoint |-> "upload_statement", filename |-> filename,
                         content |-> content]
          /\ IF ~IsPdfName(filename)
             THEN /\ Respond(upload_except(400))
                  /\ UNCHANGED <<pdf_files, transactions, line_no>>
             ELSE IF check_existing_statement(pdf_files, filename,
                                              UploadMonthYear[content, year_now])
             THEN /\ Respond(upload_except(400))
                  /\ UNCHANGED <<pdf_files, transactions, line_no>>
             ELSE IF UploadParsed[content, year_now] = << >>
             THEN /\ Respond(upload_except(400))
                  /\ UNCHANGED <<pdf_files, transactions, line_no>>
             ELSE /\ pdf_files' = Append(pdf_files,
                        [id |-> Len(pdf_files) + 1, original_filename |-> filename,
                         content |-> content,
                         month_year |-> UploadMonthYear[content, year_now]])
                  /\ transactions' =
                        auto_categorize_transactions(vendor_map,
                                                     UploadParsed[content, year_now])
                  /\ line_no' = 1
                  /\ result' = 0
                  /\ pc' = "saving"
    /\ UNCHANGED data
    /\ server_frame

\* api_server.py:126-128, one transaction: save_transaction commits the row or
\* rolls it back and raises (models.py:242-251)
SaveTransaction ==
    /\ pc = "saving" /\ line_no <= Len(transactions)
    /\ IF save_transaction_commits(transactions[line_no])
       THEN /\ data' = Append(data, StoredTransaction(transactions[line_no],
                                                      pdf_files[Len(pdf_files)].id))
            /\ line_no' = line_no + 1
            /\ UNCHANGED <<pc, result>>
       ELSE /\ Respond(upload_except(0))
            /\ UNCHANGED <<data, line_no>>
    /\ UNCHANGED <<pdf_files, request, transactions>>
    /\ server_frame

\* api_server.py:130-134
UploadReturn ==
    /\ pc = "saving" /\ line_no > Len(transactions)
    /\ result' = 200
    /\ pc' = "idle"
    /\ UNCHANGED <<data, pdf_files, request, transactions, line_no>>
    /\ server_frame

SwitchTypes == {"Debit", "Credit", "debit"}
MaxId == 2

\* api_server.py:159-182
SwitchTransactionType ==
    /\ pc = "idle"
    /\ \E transaction_id \in 1..MaxId, new_type \in SwitchTypes :
          /\ request' = [endpoint |-> "switch_transaction_type",
                         transaction_id |-> transaction_id, new_type |-> new_type]
          /\ IF new_type \notin {"Debit", "Credit"}
             THEN Respond(switch_except(400)) /\ UNCHANGED data
             ELSE IF transaction_id \in DOMAIN data
             THEN /\ data' = [data EXCEPT ![transaction_id].transaction_type = new_type]
                  /\ result' = 200
                  /\ pc' = "idle"
             ELSE Respond(switch_except(404)) /\ UNCHANGED data
    /\ UNCHANGED <<pdf_files, transactions, line_no>>
    /\ server_frame

NextServer ==
    \/ UploadStatement
    \/ SaveTransaction
    \/ UploadReturn
    \/ SwitchTransactionType

SpecServer == InitServer /\ [][NextServer]_vars

\* the request answered leaves the stored transactions and statements as they were
StoredUnchanged == data' = data /\ pdf_files' = pdf_files

\* the answer to a request that the endpoint rejects deliberately
DeliberateErrors ==
    pc = "idle" =>
        /\ request'.endpoint = "switch_transaction_type" =>
              /\ request'.new_type \notin {"Debit", "Credit"} =>
                    result' = 400 /\ StoredUnchanged
              /\ (/\ request'.new_type \in {"Debit", "Credit"}
                  /\ request'.transaction_id \notin DOMAIN data) =>
                    result' = 404 /\ StoredUnchanged
        /\ request'.endpoint = "upload_statement" =>
              /\ ~IsPdfName(request'.filename) => result' = 400 /\ StoredUnchanged
              /\ (/\ IsPdfName(request'.filename)
                  /\ \/ check_existing_statement(pdf_files, request'.filename,
                            UploadMonthYear[request'.content, year_now])
                     \/ UploadParsed[request'.content, year_now] = << >>) =>
                    result' = 400 /\ StoredUnchanged

\* C28: errors raised deliberately in the endpoints reach the client with their
\* status code: switch_transaction_type answers 400 for a new_type other than
\* Debit or Credit and 404 for an unknown id, upload_statement answers 400 for
\* a non-PDF file, a duplicate statement and a statement without transactions;
\* in each case the stored transactions and statements are unchanged.
C28_DeliberateStatusCodes == [][DeliberateErrors]_vars

\* what identifies a transaction of a statement
Identity(t) == [date |-> t.date, details |-> t.details, amount |-> t.amount]

\* every stored PDF file has all its parsed transactions stored with its id, and
\* every stored transaction references a stored PDF file
FilesAndTransactionsAgree ==
    pc = "idle" =>
        /\ \A p \in DOMAIN pdf_files :
              LET parsed == UploadParsed[pdf_files[p].content, year_now]
              IN  \A k \in DOMAIN parsed :
                     \E i \in DOMAIN data :
                        /\ data[i].pdf_file_id = pdf_files[p].id
                        /\ Identity(data[i]) = Identity(parsed[k])
        /\ \A i \in DOMAIN data :
              \E p \in DOMAIN pdf_files : pdf_files[p].id = data[i].pdf_file_id

\* an upload that has stored its PDF file does not answer with an error
StoredUploadSucceeds == (pc = "saving" /\ pc' = "idle") => result' = 200

\* C29: upload_statement is all-or-nothing: after any uploads every stored PDF
\* file has all the transactions parsed from it stored with its id, every stored
\* transaction references a stored PDF file, and an upload that answers with an
\* error has persisted neither a PDF file nor a transaction.
C29_UploadAllOrNothing == []FilesAndTransactionsAgree /\ [][StoredUploadSucceeds]_vars

====
